---- MODULE Spec2Model ----
(***************************************************************************)
(* A model of bypass, a bulk creator of Shortcut objectives, epics and     *)
(* stories: the Transport Client (src/src/api/client.rs), the Reference    *)
(* Resolver (src/src/resolver.rs) and the Creation Pipeline                *)
(* (src/src/commands/create.rs).                                           *)
(*                                                                         *)
(* Strings the program trims or parses (record names, references, the      *)
(* Retry-After header) are sequences of one-character strings, so that     *)
(* trim and parse are computed and not assumed.  An Option is a sequence   *)
(* of length at most one: None is << >> and Some(x) is <<x>>.              *)
(***************************************************************************)
EXTENDS Integers, Sequences, FiniteSets, TLC

None == << >>

Some(x) == <<x>>

IsSome(o) == o # << >>

Unwrap(o) == o[1]

Min(a, b) == IF a <= b THEN a ELSE b

(***************************************************************************)
(* Strings: str::trim and the integer parsers of the standard library.     *)
(***************************************************************************)
Digits == {"0", "1", "2", "3", "4", "5", "6", "7", "8", "9"}

DigitVal(c) ==
    CASE c = "0" -> 0 [] c = "1" -> 1 [] c = "2" -> 2 [] c = "3" -> 3
      [] c = "4" -> 4 [] c = "5" -> 5 [] c = "6" -> 6 [] c = "7" -> 7
      [] c = "8" -> 8 [] c = "9" -> 9

RECURSIVE TrimStart(_)
TrimStart(s) ==
    IF s # << >> /\ Head(s) = " " THEN TrimStart(Tail(s)) ELSE s

RECURSIVE TrimEnd(_)
TrimEnd(s) ==
    IF s # << >> /\ s[Len(s)] = " " THEN TrimEnd(SubSeq(s, 1, Len(s) - 1)) ELSE s

\* str::trim: the string without its leading and trailing whitespace.
Trim(s) == TrimEnd(TrimStart(s))

AllDigits(s) == \A i \in 1..Len(s) : s[i] \in Digits

RECURSIVE StripZeros(_)
StripZeros(s) ==
    IF Len(s) > 1 /\ Head(s) = "0" THEN StripZeros(Tail(s)) ELSE s

RECURSIVE DecimalValue(_)
DecimalValue(s) ==
    IF s = << >> THEN 0
    ELSE DecimalValue(SubSeq(s, 1, Len(s) - 1)) * 10 + DigitVal(s[Len(s)])

\* a > b for two digit strings of equal length.
RECURSIVE DigitsGreater(_, _)
DigitsGreater(a, b) ==
    IF a = << >> THEN FALSE
    ELSE IF DigitVal(Head(a)) # DigitVal(Head(b))
         THEN DigitVal(Head(a)) > DigitVal(Head(b))
         ELSE DigitsGreater(Tail(a), Tail(b))

\* The digit string s denotes a number above the one maxDigits denotes.
Overflows(s, maxDigits) ==
    LET t == StripZeros(s) IN
    \/ Len(t) > Len(maxDigits)
    \/ Len(t) = Len(maxDigits) /\ DigitsGreater(t, maxDigits)

\* u64::MAX = 18446744073709551615 and i64::MAX = 9223372036854775807.
U64MaxDigits ==
    <<"1","8","4","4","6","7","4","4","0","7","3","7","0","9","5","5","1","6","1","5">>

I64MaxDigits ==
    <<"9","2","2","3","3","7","2","0","3","6","8","5","4","7","7","5","8","0","7">>

I64MinDigits ==
    <<"9","2","2","3","3","7","2","0","3","6","8","5","4","7","7","5","8","0","8">>

\* str::parse::<u64>: an optional "+", then decimal digits, below 2^64.
ParseU64(s) ==
    LET d == IF s # << >> /\ Head(s) = "+" THEN Tail(s) ELSE s IN
    IF d = << >> \/ ~AllDigits(d) \/ Overflows(d, U64MaxDigits)
    THEN None
    ELSE Some(DecimalValue(d))

\* str::parse::<i64>: an optional sign, then decimal digits, within 64 bits.
ParseI64(s) ==
    LET neg == s # << >> /\ Head(s) = "-"
        d == IF s # << >> /\ Head(s) \in {"+", "-"} THEN Tail(s) ELSE s
    IN
    IF d = << >> \/ ~AllDigits(d) THEN None
    ELSE IF neg
         THEN IF Overflows(d, I64MinDigits) THEN None ELSE Some(0 - DecimalValue(d))
         ELSE IF Overflows(d, I64MaxDigits) THEN None ELSE Some(DecimalValue(d))

(***************************************************************************)
(* State.                                                                  *)
(*   args, input, workspace  the run's inputs: the command line, the       *)
(*                  parsed batch and the remote workspace snapshot         *)
(*   pc, idx        the position of run(): the statement and loop index    *)
(*   resolver       the Resolver (None until Resolver::new has returned)   *)
(*   results        RunResults                                             *)
(*   calls          per task, the Transport Client call it is executing:   *)
(*                  the loop's position, request and attempt, the last     *)
(*                  response, and the call's history (requests sent,       *)
(*                  sleeps made)                                           *)
(*   serverNextId, remote   the remote API: the next ID it assigns and     *)
(*                  the entities it has created                            *)
(*   wire           every request sent, in order                           *)
(*   faults         how many abnormal answers the remote has given: a     *)
(*                  retryable status, no answer, an undecodable body      *)
(*   output, exit   the events printed and the run's end                   *)
(***************************************************************************)
VARIABLES args, input, workspace, pc, idx, resolver, results, calls,
          serverNextId, remote, wire, faults, output, exit

vars == <<args, input, workspace, pc, idx, resolver, results, calls,
          serverNextId, remote, wire, faults, output, exit>>

pipelineVars == <<args, input, workspace, pc, idx, resolver, results, output, exit>>

(***************************************************************************)
(* Transport Client (src/src/api/client.rs).                               *)
(***************************************************************************)
RETRYABLE == {429, 500, 503, 504}

MAX_RETRIES == 5

BASE_DELAY == 1

MAX_DELAY == 30

\* The tasks that run client calls: Resolver::new joins three, run() is "main".
Tasks == {"main", "members", "groups", "workflows"}

Request(method, path, body) == [method |-> method, path |-> path, body |-> body]

NoRequest == Request("", "", None)

IdleCall ==
    [pc |-> "idle", req |-> NoRequest, attempt |-> 0, resp |-> None,
     sent |-> 0, slept |-> << >>, ret |-> None]

\* send_with_retry is entered: attempt = 0 and the first request is sent.
NewCall(req) ==
    [pc |-> "await", req |-> req, attempt |-> 0, resp |-> None,
     sent |-> 1, slept |-> << >>, ret |-> None]

\* What http.execute yields: a transport error, or a response.
TransportFailure == [transport |-> FALSE, status |-> 0, retry_after |-> None, json_ok |-> FALSE]

HttpResponse(status, retry_after, json_ok) ==
    [transport |-> TRUE, status |-> status, retry_after |-> retry_after, json_ok |-> json_ok]

\* Result<T>: Ok(value), or an error: BypassError::Api{status},
\* BypassError::NameNotFound{resource_type, name}, a transport error
\* (reqwest), a body that does not decode, a template that cannot be read.
Ok(v) ==
    [ok |-> TRUE, value |-> v, err |-> "", status |-> 0, resource_type |-> "", name |-> << >>]

Err(kind, status, rtype, name) ==
    [ok |-> FALSE, value |-> None, err |-> kind, status |-> status,
     resource_type |-> rtype, name |-> name]

ApiError(status) == Err("Api", status, "", << >>)

NameNotFound(rtype, name) == Err("NameNotFound", 0, rtype, name)

TransportError == Err("Transport", 0, "", << >>)

DecodeError == Err("Decode", 0, "", << >>)

IsSuccess(status) == status >= 200 /\ status <= 299

\* IsRetryable with every error status retried (what C10 excludes).
IsRetryableAnyError(status) == status >= 400

IsRetryable(status) == status \in RETRYABLE

Pow2(n) == 2 ^ n

\* ExponentialDelay with the schedule reversed (what C9 excludes).
ExponentialDelayShrinking(attempt) == BASE_DELAY * Pow2(MAX_RETRIES - attempt)

ExponentialDelay(attempt) == BASE_DELAY * Pow2(attempt)

\* The Retry-After header read as seconds, when present and parseable.
RetryAfterSecs(r) ==
    IF IsSome(r.retry_after) THEN ParseU64(Unwrap(r.retry_after)) ELSE None

\* BackoffDelay without .min(MAX_DELAY) (what C6 excludes).
BackoffDelayUncapped(r, attempt) ==
    IF r.status = 429
    THEN IF IsSome(RetryAfterSecs(r)) THEN Unwrap(RetryAfterSecs(r))
         ELSE ExponentialDelay(attempt)
    ELSE ExponentialDelay(attempt)

\* BackoffDelay that never reads Retry-After (what C7 excludes).
BackoffDelayNoHeader(r, attempt) == Min(ExponentialDelay(attempt), MAX_DELAY)

\* BackoffDelay that reads Retry-After whatever the status (what C8 excludes).
BackoffDelayAnyStatus(r, attempt) ==
    Min(IF IsSome(RetryAfterSecs(r)) THEN Unwrap(RetryAfterSecs(r))
        ELSE ExponentialDelay(attempt),
        MAX_DELAY)

\* The delay before the next attempt, capped at MAX_DELAY.
BackoffDelay(r, attempt) ==
    Min(IF r.status = 429
        THEN IF IsSome(RetryAfterSecs(r)) THEN Unwrap(RetryAfterSecs(r))
             ELSE ExponentialDelay(attempt)
        ELSE ExponentialDelay(attempt),
        MAX_DELAY)

\* Where a delay comes from: the Retry-After header of a 429, or the
\* exponential schedule.
DelaySource(r) ==
    IF r.status = 429 /\ IsSome(RetryAfterSecs(r)) THEN "retry-after" ELSE "exponential"

\* One sleep of the loop: its length and where the length comes from.
Slept(r, attempt) == [secs |-> BackoffDelay(r, attempt), source |-> DelaySource(r)]

\* ShouldReturn with one retry more (what C5 excludes).
ShouldReturnOneMore(status, attempt) == ~IsRetryable(status) \/ attempt > MAX_RETRIES

\* The loop's test: return the response, or back off and send again.
ShouldReturn(status, attempt) == ~IsRetryable(status) \/ attempt >= MAX_RETRIES

\* handle_response: the decoded body of a 2xx response, or an error.
HandleResponse(r, payload) ==
    IF IsSuccess(r.status)
    THEN IF r.json_ok THEN Ok(payload) ELSE DecodeError
    ELSE ApiError(r.status)

GetPayload(path) ==
    CASE path = "/members" -> workspace.members
      [] path = "/groups" -> workspace.groups
      [] path = "/workflows" -> workspace.workflows
      [] OTHER -> << >>

\* The body a 2xx response carries: the created entity, or the list read.
Payload(req) ==
    IF req.method = "POST"
    THEN [id |-> serverNextId, name |-> req.body.name]
    ELSE GetPayload(req.path)

\* The loop ends at this attempt: execute(..).await? has failed (the ?
\* returns the transport error), or the response is to be returned.
Returns(r, attempt) == ~r.transport \/ ShouldReturn(r.status, attempt)

\* HandleResponse that looks at the body only (what C11 excludes).
CallResultAnyStatus(r, payload) ==
    IF ~r.transport THEN TransportError
    ELSE IF r.json_ok THEN Ok(payload) ELSE DecodeError

\* What get / post return once the loop has ended.
CallResult(r, payload) ==
    IF ~r.transport THEN TransportError ELSE HandleResponse(r, payload)

\* A response r to the request in flight of task t arrives: the remote has
\* created the entity if it answers a POST 2xx, and the loop either returns
\* (through handle_response) or computes the delay and sleeps.
Respond(t, r) ==
    LET c == calls[t] IN
    /\ c.pc = "await"
    /\ IF r.transport /\ c.req.method = "POST" /\ IsSuccess(r.status)
       THEN /\ serverNextId' = serverNextId + 1
            /\ remote' = Append(remote, [path |-> c.req.path, name |-> c.req.body.name,
                                          id |-> serverNextId])
       ELSE UNCHANGED <<serverNextId, remote>>
    /\ calls' = [calls EXCEPT ![t] =
         IF Returns(r, c.attempt)
         THEN [c EXCEPT !.pc = "returned", !.resp = Some(r),
                        !.ret = Some(CallResult(r, Payload(c.req)))]
         ELSE [c EXCEPT !.pc = "sleep", !.resp = Some(r),
                        !.attempt = c.attempt + 1,
                        !.slept = Append(c.slept, Slept(r, c.attempt))]]

\* tokio::time::sleep(delay) is over: the loop sends the request again.
Wake(t) ==
    LET c == calls[t] IN
    /\ c.pc = "sleep"
    /\ calls' = [calls EXCEPT ![t] = [c EXCEPT !.pc = "await", !.sent = c.sent + 1]]
    /\ wire' = Append(wire, c.req)
    /\ UNCHANGED <<serverNextId, remote, faults>>
    /\ UNCHANGED pipelineVars

(***************************************************************************)
(* Reference Resolver (src/src/resolver.rs).  A HashMap is a function on   *)
(* its key set.                                                            *)
(***************************************************************************)
EmptyMap == << >>

Insert(m, k, v) == [x \in (DOMAIN m) \cup {k} |-> IF x = k THEN v ELSE m[x]]

Get(m, k) == IF k \in DOMAIN m THEN Some(m[k]) ELSE None

\* MemberMap that does not skip disabled members (what C30 excludes).
RECURSIVE MemberMapAll(_)
MemberMapAll(members) ==
    IF members = << >> THEN EmptyMap
    ELSE LET m == members[Len(members)]
             prev == MemberMapAll(SubSeq(members, 1, Len(members) - 1))
             withName == Insert(Insert(prev, m.name, m.id), m.mention_name, m.id)
         IN  IF IsSome(m.email_address)
             THEN Insert(withName, Unwrap(m.email_address), m.id)
             ELSE withName

\* The members loop of Resolver::new: disabled members are skipped; name,
\* mention name and email are inserted in this order, later inserts winning.
RECURSIVE MemberMap(_)
MemberMap(members) ==
    IF members = << >> THEN EmptyMap
    ELSE LET m == members[Len(members)]
             prev == MemberMap(SubSeq(members, 1, Len(members) - 1))
             withName == Insert(Insert(prev, m.name, m.id), m.mention_name, m.id)
         IN  IF m.disabled THEN prev
             ELSE IF IsSome(m.email_address)
                  THEN Insert(withName, Unwrap(m.email_address), m.id)
                  ELSE withName

\* The groups loop of Resolver::new: archived groups are skipped.
RECURSIVE GroupMap(_)
GroupMap(groups) ==
    IF groups = << >> THEN EmptyMap
    ELSE LET g == groups[Len(groups)]
             prev == GroupMap(SubSeq(groups, 1, Len(groups) - 1))
         IN  IF g.archived THEN prev
             ELSE Insert(Insert(prev, g.name, g.id), g.mention_name, g.id)

\* The states of all workflows, in iteration order.
RECURSIVE AllStates(_)
AllStates(workflows) ==
    IF workflows = << >> THEN << >>
    ELSE Head(workflows).states \o AllStates(Tail(workflows))

\* StateMap in which the first state of a name wins (what C29 excludes).
RECURSIVE StateMapFirstWins(_)
StateMapFirstWins(states) ==
    IF states = << >> THEN EmptyMap
    ELSE Insert(StateMapFirstWins(Tail(states)), Head(states).name, Head(states).id)

\* Last write wins for duplicate names across workflows.
RECURSIVE StateMap(_)
StateMap(states) ==
    IF states = << >> THEN EmptyMap
    ELSE LET st == states[Len(states)] IN
         Insert(StateMap(SubSeq(states, 1, Len(states) - 1)), st.name, st.id)

\* The workflows loop of Resolver::new for default_workflow_state_id: d is
\* the value so far; within a workflow the first "unstarted" state sets it
\* while it is None, and after the workflow's states its default_state_id.
RECURSIVE FirstUnstarted(_)
FirstUnstarted(states) ==
    IF states = << >> THEN None
    ELSE IF Head(states).state_type = "unstarted" THEN Some(Head(states).id)
         ELSE FirstUnstarted(Tail(states))

RECURSIVE DefaultState(_, _)
DefaultState(workflows, d) ==
    IF workflows = << >> THEN d
    ELSE LET wf == Head(workflows)
             afterStates == IF IsSome(d) THEN d ELSE FirstUnstarted(wf.states)
             afterWf == IF IsSome(afterStates) THEN afterStates ELSE Some(wf.default_state_id)
         IN  DefaultState(Tail(workflows), afterWf)

\* Resolver::new once the three reads have succeeded.
NewResolver(members, groups, workflows) ==
    [member_map |-> MemberMap(members),
     group_map |-> GroupMap(groups),
     workflow_state_map |-> StateMap(AllStates(workflows)),
     default_workflow_state_id |-> DefaultState(workflows, None),
     objective_map |-> EmptyMap,
     epic_map |-> EmptyMap]

Lookup(m, name, rtype) ==
    IF IsSome(Get(m, Trim(name))) THEN Ok(Unwrap(Get(m, Trim(name))))
    ELSE NameNotFound(rtype, name)

resolve_member(r, name) == Lookup(r.member_map, name, "user")

resolve_group(r, name) == Lookup(r.group_map, name, "team")

resolve_workflow_state(r, name) == Lookup(r.workflow_state_map, name, "workflow state")

\* ResolveAll that leaves out the names that do not resolve (what C32
\* excludes).
RECURSIVE ResolveAllPartial(_, _, _)
ResolveAllPartial(m, names, rtype) ==
    IF names = << >> THEN Ok(<< >>)
    ELSE LET first == Lookup(m, Head(names), rtype)
             rest == ResolveAllPartial(m, Tail(names), rtype)
         IN  Ok((IF first.ok THEN <<first.value>> ELSE << >>) \o rest.value)

\* collect::<Result<Vec<_>>>: the IDs of all names, or the first error.
RECURSIVE ResolveAll(_, _, _)
ResolveAll(m, names, rtype) ==
    IF names = << >> THEN Ok(<< >>)
    ELSE LET first == Lookup(m, Head(names), rtype)
             rest == ResolveAll(m, Tail(names), rtype)
         IN  IF ~first.ok THEN first
             ELSE IF ~rest.ok THEN rest
             ELSE Ok(<<first.value>> \o rest.value)

resolve_members(r, names) == ResolveAll(r.member_map, names, "user")

resolve_groups(r, names) == ResolveAll(r.group_map, names, "team")

\* ResolveCreated that answers a default ID for an unknown name (what C18
\* excludes).
ResolveCreatedDefault(m, name, rtype) ==
    IF IsSome(ParseI64(Trim(name))) THEN Ok(Unwrap(ParseI64(Trim(name))))
    ELSE IF IsSome(Get(m, Trim(name))) THEN Ok(Unwrap(Get(m, Trim(name))))
    ELSE Ok(0)

\* ResolveCreated that looks the name up before it tries it as a number
\* (what C33 excludes).
ResolveCreatedMapFirst(m, name, rtype) ==
    IF IsSome(Get(m, Trim(name))) THEN Ok(Unwrap(Get(m, Trim(name))))
    ELSE IF IsSome(ParseI64(Trim(name))) THEN Ok(Unwrap(ParseI64(Trim(name))))
    ELSE NameNotFound(rtype, name)

\* A string that parses as an i64 once trimmed is a pass-through ID.
ResolveCreated(m, name, rtype) ==
    IF IsSome(ParseI64(Trim(name))) THEN Ok(Unwrap(ParseI64(Trim(name))))
    ELSE Lookup(m, name, rtype)

resolve_objective(r, name) == ResolveCreated(r.objective_map, name, "objective")

resolve_epic(r, name) == ResolveCreated(r.epic_map, name, "epic")

\* register_objective that forgets the earlier entries (what C16 excludes).
register_objective_fresh(r, name, id) ==
    [r EXCEPT !.objective_map = Insert(EmptyMap, name, id)]

\* register_objective that stores another ID than the one returned (what C3
\* excludes).
register_objective_stale(r, name, id) ==
    [r EXCEPT !.objective_map = Insert(r.objective_map, name, id - 1)]

register_objective(r, name, id) ==
    [r EXCEPT !.objective_map = Insert(r.objective_map, name, id)]

\* register_epic that enters the name in the objective map (what C35
\* excludes).
register_epic_as_objective(r, name, id) ==
    [r EXCEPT !.objective_map = Insert(r.objective_map, name, id)]

\* register_epic that registers nothing (what C31 excludes).
register_epic_skipped(r, name, id) == r

register_epic(r, name, id) ==
    [r EXCEPT !.epic_map = Insert(r.epic_map, name, id)]

(***************************************************************************)
(* Inputs (src/src/input/models.rs, src/src/cli.rs).  Labels, dates,       *)
(* descriptions and estimates are copied into the requests unchanged and   *)
(* are left out.                                                           *)
(***************************************************************************)
InputObjective(name, state) == [name |-> name, state |-> state]

InputEpic(name, objective, owners, teams, state, template) ==
    [name |-> name, objective |-> objective, owners |-> owners, teams |-> teams,
     state |-> state, template |-> template]

InputStory(name, story_type, epic, owners, team, workflow_state) ==
    [name |-> name, story_type |-> story_type, epic |-> epic, owners |-> owners,
     team |-> team, workflow_state |-> workflow_state]

InputFile(objectives, epics, stories) ==
    [objectives |-> objectives, epics |-> epics, stories |-> stories]

CreateArgs(dry_run, template) == [dry_run |-> dry_run, template |-> template]

\* Template::load succeeds on the files that can be read.
ReadableFiles == {"ok.md"}

TemplateLoad(path) == IF path \in ReadableFiles THEN Ok(path) ELSE Err("Template", 0, "", << >>)

\* Path::exists.
ExistingFiles == {"ok.md"}

(***************************************************************************)
(* Creation Pipeline (src/src/commands/create.rs).                         *)
(***************************************************************************)
RunResults(objectives_ok, epics_ok, stories_ok, errors) ==
    [objectives_ok |-> objectives_ok, epics_ok |-> epics_ok,
     stories_ok |-> stories_ok, errors |-> errors]

\* format!("Objective '{}': {e}", name): the kind, the name, the error.
Failure(kind, name, e) == [kind |-> kind, name |-> name, error |-> e]

\* emit_ok and emit_err.
CreatedEvent(kind, name, id) ==
    [event |-> "created", kind |-> kind, name |-> name, id |-> id, error |-> None]

ErrorEvent(kind, name, e) ==
    [event |-> "error", kind |-> kind, name |-> name, id |-> 0, error |-> Some(e)]

CreateObjectiveRequest(o) == [name |-> o.name, state |-> o.state]

\* The references of an epic, resolved in the order of build_and_create_epic;
\* the first failure is the result (the ? operator).
EpicOwnerIds(r, e) ==
    IF e.owners = << >> THEN Ok(None)
    ELSE LET x == resolve_members(r, e.owners) IN IF x.ok THEN Ok(Some(x.value)) ELSE x

EpicGroupIds(r, e) ==
    IF e.teams = << >> THEN Ok(None)
    ELSE LET x == resolve_groups(r, e.teams) IN IF x.ok THEN Ok(Some(x.value)) ELSE x

EpicObjectiveIds(r, e) ==
    IF e.objective = None THEN Ok(None)
    ELSE LET x == resolve_objective(r, Unwrap(e.objective)) IN
         IF x.ok THEN Ok(Some(<<x.value>>)) ELSE x

\* The description: rendered by the template when there is one.
EpicDescription(template) == IF IsSome(template) THEN "rendered" ELSE "raw"

\* build_and_create_epic up to the create call: the request, or the error.
BuildEpicRequest(r, e, template) ==
    LET owner_ids == EpicOwnerIds(r, e)
        group_ids == EpicGroupIds(r, e)
        objective_ids == EpicObjectiveIds(r, e)
    IN  IF ~owner_ids.ok THEN owner_ids
        ELSE IF ~group_ids.ok THEN group_ids
        ELSE IF ~objective_ids.ok THEN objective_ids
        ELSE Ok([name |-> e.name, description |-> EpicDescription(template),
                 state |-> e.state, objective_ids |-> objective_ids.value,
                 owner_ids |-> owner_ids.value, group_ids |-> group_ids.value])

StoryOwnerIds(r, s) ==
    IF s.owners = << >> THEN Ok(None)
    ELSE LET x == resolve_members(r, s.owners) IN IF x.ok THEN Ok(Some(x.value)) ELSE x

StoryGroupId(r, s) ==
    IF s.team = None THEN Ok(None)
    ELSE LET x == resolve_group(r, Unwrap(s.team)) IN IF x.ok THEN Ok(Some(x.value)) ELSE x

StoryEpicId(r, s) ==
    IF s.epic = None THEN Ok(None)
    ELSE LET x == resolve_epic(r, Unwrap(s.epic)) IN IF x.ok THEN Ok(Some(x.value)) ELSE x

\* StoryWorkflowStateId that always takes the default state.
StoryWorkflowStateIdDefault(r, s) == Ok(r.default_workflow_state_id)

StoryWorkflowStateId(r, s) ==
    IF s.workflow_state = None THEN Ok(r.default_workflow_state_id)
    ELSE LET x == resolve_workflow_state(r, Unwrap(s.workflow_state)) IN
         IF x.ok THEN Ok(Some(x.value)) ELSE x

\* build_and_create_story up to the create call: the request, or the error.
BuildStoryRequest(r, s) ==
    LET owner_ids == StoryOwnerIds(r, s)
        group_id == StoryGroupId(r, s)
        epic_id == StoryEpicId(r, s)
        workflow_state_id == StoryWorkflowStateId(r, s)
    IN  IF ~owner_ids.ok THEN owner_ids
        ELSE IF ~group_id.ok THEN group_id
        ELSE IF ~epic_id.ok THEN epic_id
        ELSE IF ~workflow_state_id.ok THEN workflow_state_id
        ELSE Ok([name |-> s.name, story_type |-> s.story_type,
                 owner_ids |-> owner_ids.value, group_id |-> group_id.value,
                 epic_id |-> epic_id.value,
                 workflow_state_id |-> workflow_state_id.value])

(***************************************************************************)
(* Dry-run validation (dry_run).                                           *)
(***************************************************************************)
\* Byte order of the characters the model's strings are made of.
Alphabet == <<" ", "+", "-", "0", "1", "2", "3", "4", "5", "6", "7", "8", "9",
              "a", "b", "c", "d", "e", "f", "g", "h", "i", "j", "k", "l", "m",
              "n", "o", "p", "q", "r", "s", "t", "u", "v", "w", "x", "y", "z">>

CharRank(c) == CHOOSE i \in 1..Len(Alphabet) : Alphabet[i] = c

\* a < b in the order of str (lexicographic by byte).
RECURSIVE StrLess(_, _)
StrLess(a, b) ==
    IF b = << >> THEN FALSE
    ELSE IF a = << >> THEN TRUE
    ELSE IF Head(a) # Head(b) THEN CharRank(Head(a)) < CharRank(Head(b))
    ELSE StrLess(Tail(a), Tail(b))

\* sort_unstable and dedup of a key set: its members in increasing order.
RECURSIVE Sorted(_)
Sorted(S) ==
    IF S = {} THEN << >>
    ELSE LET least == CHOOSE x \in S : \A y \in S \ {x} : StrLess(x, y) IN
         <<least>> \o Sorted(S \ {least})

\* The keys of a HashMap as its iterator yields them: the keys of m in the
\* order h, a sequence of all the keys in play that stands for the map's
\* hasher (any order is possible).
Keys(m, h) ==
    LET InMap(k) == k \in DOMAIN m IN SelectSeq(h, InMap)

\* The orders in which the keys of S can be iterated.
IterationOrders(S) ==
    {h \in [1..Cardinality(S) -> S] : \A i, j \in 1..Cardinality(S) : h[i] = h[j] => i = j}

\* available_members, available_groups, available_workflow_states.
StaticKeys(r) == DOMAIN r.member_map \cup DOMAIN r.group_map \cup DOMAIN r.workflow_state_map

\* list_sample without sort_unstable and dedup: the items as they come.
list_sample_unsorted(items) ==
    [preview |-> SubSeq(items, 1, Min(5, Len(items))),
     more |-> IF Len(items) > 5 THEN Len(items) - 5 ELSE 0]

\* list_sample: the items sorted and deduplicated, at most 5 of them and
\* the count of the rest.
list_sample(items) ==
    LET sorted == Sorted({items[i] : i \in 1..Len(items)}) IN
    [preview |-> SubSeq(sorted, 1, Min(5, Len(sorted))),
     more |-> IF Len(sorted) > 5 THEN Len(sorted) - 5 ELSE 0]

NoHint == [preview |-> << >>, more |-> 0]

LegalStates == {"in progress", "to do", "done"}

LegalStoryTypes == {"bug", "chore", "feature"}

\* One validation error: the record, the check it fails, what it names.
Violation(kind, name, check, subject, hint) ==
    [kind |-> kind, name |-> name, check |-> check, subject |-> subject, hint |-> hint]

\* validate_objective_state and validate_epic_state.
StateViolations(kind, name, state) ==
    IF IsSome(state) /\ Unwrap(state) \notin LegalStates
    THEN <<Violation(kind, name, "invalid state", state, NoHint)>>
    ELSE << >>

\* One "unknown ..." error per name that is no key of m once trimmed.
RECURSIVE UnknownNames(_, _, _, _, _, _)
UnknownNames(kind, name, check, refs, m, h) ==
    IF refs = << >> THEN << >>
    ELSE (IF Trim(Head(refs)) \in DOMAIN m THEN << >>
          ELSE <<Violation(kind, name, check, Some(Head(refs)), list_sample(Keys(m, h)))>>)
         \o UnknownNames(kind, name, check, Tail(refs), m, h)

\* The parent reference of an epic or story: numeric, or a name of the batch,
\* or a key of the dynamic map once trimmed.
ParentViolations(kind, name, ref, batch_names, m) ==
    IF /\ IsSome(ref)
       /\ ~IsSome(ParseI64(Unwrap(ref)))
       /\ Unwrap(ref) \notin batch_names
       /\ Trim(Unwrap(ref)) \notin DOMAIN m
    THEN <<Violation(kind, name, "parent not found", ref, NoHint)>>
    ELSE << >>

ObjectiveViolations(o) ==
    (IF o.name = << >>
     THEN <<Violation("Objective", o.name, "name required", None, NoHint)>>
     ELSE << >>)
    \o StateViolations("Objective", o.name, o.state)

EpicViolations(e, batch_objectives, r, h) ==
    IF e.name = << >>
    THEN <<Violation("Epic", e.name, "name required", None, NoHint)>>
    ELSE StateViolations("Epic", e.name, e.state)
         \o UnknownNames("Epic", e.name, "unknown user", e.owners, r.member_map, h)
         \o UnknownNames("Epic", e.name, "unknown team", e.teams, r.group_map, h)
         \o ParentViolations("Epic", e.name, e.objective, batch_objectives, r.objective_map)
         \o (IF IsSome(e.template) /\ Unwrap(e.template) \notin ExistingFiles
             THEN <<Violation("Epic", e.name, "template not found", e.template, NoHint)>>
             ELSE << >>)

StoryViolations(s, batch_epics, r, h) ==
    IF s.name = << >>
    THEN <<Violation("Story", s.name, "name required", None, NoHint)>>
    ELSE (IF IsSome(s.story_type) /\ Unwrap(s.story_type) \notin LegalStoryTypes
          THEN <<Violation("Story", s.name, "invalid type", s.story_type, NoHint)>>
          ELSE << >>)
         \o UnknownNames("Story", s.name, "unknown user", s.owners, r.member_map, h)
         \o UnknownNames("Story", s.name, "unknown team", s.team, r.group_map, h)
         \o ParentViolations("Story", s.name, s.epic, batch_epics, r.epic_map)
         \o UnknownNames("Story", s.name, "unknown workflow state", s.workflow_state,
                         r.workflow_state_map, h)

NamesOf(records) == {records[i].name : i \in 1..Len(records)}

RECURSIVE AllObjectiveViolations(_)
AllObjectiveViolations(os) ==
    IF os = << >> THEN << >>
    ELSE ObjectiveViolations(Head(os)) \o AllObjectiveViolations(Tail(os))

RECURSIVE AllEpicViolations(_, _, _, _)
AllEpicViolations(es, batch_objectives, r, h) ==
    IF es = << >> THEN << >>
    ELSE EpicViolations(Head(es), batch_objectives, r, h)
         \o AllEpicViolations(Tail(es), batch_objectives, r, h)

RECURSIVE AllStoryViolations(_, _, _, _)
AllStoryViolations(ss, batch_epics, r, h) ==
    IF ss = << >> THEN << >>
    ELSE StoryViolations(Head(ss), batch_epics, r, h)
         \o AllStoryViolations(Tail(ss), batch_epics, r, h)

\* The error list of dry_run, the maps iterating in the order h.
DryRunErrors(in, r, h) ==
    AllObjectiveViolations(in.objectives)
    \o AllEpicViolations(in.epics, NamesOf(in.objectives), r, h)
    \o AllStoryViolations(in.stories, NamesOf(in.epics), r, h)

(***************************************************************************)
(* run (create.rs), one action per step between two awaits.                *)
(***************************************************************************)
Readers == {"members", "groups", "workflows"}

ReadPath(t) ==
    CASE t = "members" -> "/members" [] t = "groups" -> "/groups" [] OTHER -> "/workflows"

ReadRequest(t) == Request("GET", ReadPath(t), None)

Total == Len(input.objectives) + Len(input.epics) + Len(input.stories)

\* The position after the tiers before `tier` are exhausted: the first
\* tier from `tier` on that has records, or the summary.
FirstFrom(tier) ==
    IF tier = "objectives" /\ input.objectives # << >> THEN "objectives"
    ELSE IF tier \in {"objectives", "epics"} /\ input.epics # << >> THEN "epics"
    ELSE IF input.stories # << >> THEN "stories"
    ELSE "summary"

\* NextPc that leaves the objectives tier after its first record (what C1
\* excludes).
NextPcSkipping(tier, i) ==
    IF tier = "objectives" THEN FirstFrom("epics")
    ELSE IF tier = "epics"
    THEN IF i < Len(input.epics) THEN "epics" ELSE FirstFrom("stories")
    ELSE IF i < Len(input.stories) THEN "stories" ELSE "summary"

\* The position after record i of a tier: the next record, or the next tier.
NextPc(tier, i) ==
    IF tier = "objectives"
    THEN IF i < Len(input.objectives) THEN "objectives" ELSE FirstFrom("epics")
    ELSE IF tier = "epics"
    THEN IF i < Len(input.epics) THEN "epics" ELSE FirstFrom("stories")
    ELSE IF i < Len(input.stories) THEN "stories" ELSE "summary"

\* NextIdx that stays on the record just processed (what C15 excludes).
NextIdxStaying(tier, i) == IF NextPc(tier, i) = tier THEN i ELSE 1

NextIdx(tier, i) == IF NextPc(tier, i) = tier THEN i + 1 ELSE 1

\* Start without the early return on an empty batch.
StartReadsAlways ==
    /\ pc = "start"
    /\ IF IsSome(args.template) /\ ~TemplateLoad(Unwrap(args.template)).ok
       THEN /\ pc' = "done"
            /\ exit' = "error"
            /\ UNCHANGED <<calls, wire>>
       ELSE /\ pc' = "resolver"
            /\ calls' = [t \in Tasks |->
                          IF t \in Readers THEN NewCall(ReadRequest(t)) ELSE calls[t]]
            /\ wire' = wire \o <<ReadRequest("members"), ReadRequest("groups"),
                                 ReadRequest("workflows")>>
            /\ UNCHANGED exit
    /\ UNCHANGED <<args, input, workspace, idx, resolver, results, output>>
    /\ UNCHANGED <<serverNextId, remote, faults>>

\* run up to Resolver::new: an empty batch ends the run, an unreadable
\* --template aborts it, otherwise try_join! starts the three reads.
Start ==
    /\ pc = "start"
    /\ IF Total = 0
       THEN /\ pc' = "done"
            /\ exit' = "ok"
            /\ UNCHANGED <<calls, wire>>
       ELSE IF IsSome(args.template) /\ ~TemplateLoad(Unwrap(args.template)).ok
       THEN /\ pc' = "done"
            /\ exit' = "error"
            /\ UNCHANGED <<calls, wire>>
       ELSE /\ pc' = "resolver"
            /\ calls' = [t \in Tasks |->
                          IF t \in Readers THEN NewCall(ReadRequest(t)) ELSE calls[t]]
            /\ wire' = wire \o <<ReadRequest("members"), ReadRequest("groups"),
                                 ReadRequest("workflows")>>
            /\ UNCHANGED exit
    /\ UNCHANGED <<args, input, workspace, idx, resolver, results, output>>
    /\ UNCHANGED <<serverNextId, remote, faults>>

\* ResolverFailed that goes on with an empty Resolver (what C14 excludes).
ResolverFailedGoesOn ==
    /\ pc = "resolver"
    /\ \E t \in Readers : calls[t].pc = "returned" /\ ~Unwrap(calls[t].ret).ok
    /\ resolver' = Some(NewResolver(<< >>, << >>, << >>))
    /\ calls' = [t \in Tasks |-> IdleCall]
    /\ pc' = IF args.dry_run THEN "dry_run" ELSE FirstFrom("objectives")
    /\ idx' = 1
    /\ UNCHANGED <<args, input, workspace, results, output, exit>>
    /\ UNCHANGED <<serverNextId, remote, wire, faults>>

\* try_join! ends with the error of a read that failed; the other reads are
\* dropped, and the ? of run returns the error.
ResolverFailed ==
    /\ pc = "resolver"
    /\ \E t \in Readers : calls[t].pc = "returned" /\ ~Unwrap(calls[t].ret).ok
    /\ calls' = [t \in Tasks |-> IdleCall]
    /\ pc' = "done"
    /\ exit' = "error"
    /\ UNCHANGED <<args, input, workspace, idx, resolver, results, output>>
    /\ UNCHANGED <<serverNextId, remote, wire, faults>>

\* ResolverBuilt that does not wait for the groups and workflows reads (what
\* C13 excludes).
ResolverBuiltPartial ==
    /\ pc = "resolver"
    /\ calls["members"].pc = "returned" /\ Unwrap(calls["members"].ret).ok
    /\ resolver' = Some(NewResolver(
           Unwrap(calls["members"].ret).value,
           IF calls["groups"].pc = "returned" /\ Unwrap(calls["groups"].ret).ok
           THEN Unwrap(calls["groups"].ret).value ELSE << >>,
           IF calls["workflows"].pc = "returned" /\ Unwrap(calls["workflows"].ret).ok
           THEN Unwrap(calls["workflows"].ret).value ELSE << >>))
    /\ calls' = [t \in Tasks |-> IdleCall]
    /\ pc' = IF args.dry_run THEN "dry_run" ELSE FirstFrom("objectives")
    /\ idx' = 1
    /\ UNCHANGED <<args, input, workspace, results, output, exit>>
    /\ UNCHANGED <<serverNextId, remote, wire, faults>>

\* ResolverBuilt that enters the creation loops in dry-run mode too (what
\* C22 excludes).
ResolverBuiltApplies ==
    /\ pc = "resolver"
    /\ \A t \in Readers : calls[t].pc = "returned" /\ Unwrap(calls[t].ret).ok
    /\ resolver' = Some(NewResolver(Unwrap(calls["members"].ret).value,
                                    Unwrap(calls["groups"].ret).value,
                                    Unwrap(calls["workflows"].ret).value))
    /\ calls' = [t \in Tasks |-> IdleCall]
    /\ pc' = FirstFrom("objectives")
    /\ idx' = 1
    /\ UNCHANGED <<args, input, workspace, results, output, exit>>
    /\ UNCHANGED <<serverNextId, remote, wire, faults>>

\* The three reads have succeeded: the Resolver is built.
ResolverBuilt ==
    /\ pc = "resolver"
    /\ \A t \in Readers : calls[t].pc = "returned" /\ Unwrap(calls[t].ret).ok
    /\ resolver' = Some(NewResolver(Unwrap(calls["members"].ret).value,
                                    Unwrap(calls["groups"].ret).value,
                                    Unwrap(calls["workflows"].ret).value))
    /\ calls' = [t \in Tasks |-> IdleCall]
    /\ pc' = IF args.dry_run THEN "dry_run" ELSE FirstFrom("objectives")
    /\ idx' = 1
    /\ UNCHANGED <<args, input, workspace, results, output, exit>>
    /\ UNCHANGED <<serverNextId, remote, wire, faults>>

\* dry_run: the validation event, and exit(1) if there are errors.
DryRun ==
    /\ pc = "dry_run"
    /\ \E h \in IterationOrders(StaticKeys(Unwrap(resolver))) :
       LET errors == DryRunErrors(input, Unwrap(resolver), h) IN
       /\ output' = Append(output, [event |-> "dry_run", valid |-> errors = << >>,
                                    errors |-> errors])
       /\ exit' = IF errors = << >> THEN "ok" ELSE "exit1"
    /\ pc' = "done"
    /\ UNCHANGED <<args, input, workspace, idx, resolver, results>>
    /\ UNCHANGED <<calls, serverNextId, remote, wire, faults>>

\* StartCreate that sends the first request twice.
StartCreateTwice(path, body) ==
    /\ calls' = [calls EXCEPT !["main"] = NewCall(Request("POST", path, body))]
    /\ wire' = Append(Append(wire, Request("POST", path, body)), Request("POST", path, body))

\* The create call of the main task is started: its first request is sent.
StartCreate(path, body) ==
    /\ calls' = [calls EXCEPT !["main"] = NewCall(Request("POST", path, body))]
    /\ wire' = Append(wire, Request("POST", path, body))

\* RecordFailure that enters the failure twice.
RecordFailureTwice(tier, kind, name, e) ==
    /\ results' = [results EXCEPT !.errors =
                      Append(Append(results.errors, Failure(kind, name, e)), Failure(kind, name, e))]
    /\ output' = Append(output, ErrorEvent(kind, name, e))
    /\ pc' = NextPc(tier, idx)
    /\ idx' = NextIdx(tier, idx)

\* The record at idx of `tier` has failed with e: the failure is recorded
\* and the loop goes on.
RecordFailure(tier, kind, name, e) ==
    /\ results' = [results EXCEPT !.errors = Append(results.errors, Failure(kind, name, e))]
    /\ output' = Append(output, ErrorEvent(kind, name, e))
    /\ pc' = NextPc(tier, idx)
    /\ idx' = NextIdx(tier, idx)

\* The objectives loop up to the await of create_objective.
ObjectiveBegin ==
    /\ pc = "objectives"
    /\ StartCreate("/objectives", CreateObjectiveRequest(input.objectives[idx]))
    /\ pc' = "objective_call"
    /\ UNCHANGED <<args, input, workspace, idx, resolver, results, output, exit>>
    /\ UNCHANGED <<serverNextId, remote, faults>>

\* create_objective has returned: the match of the objectives loop.
ObjectiveEnd ==
    /\ pc = "objective_call"
    /\ calls["main"].pc = "returned"
    /\ LET obj == input.objectives[idx]
           res == Unwrap(calls["main"].ret)
       IN  IF res.ok
           THEN /\ resolver' = Some(register_objective(Unwrap(resolver), obj.name, res.value.id))
                /\ results' = [results EXCEPT !.objectives_ok = results.objectives_ok + 1]
                /\ output' = Append(output, CreatedEvent("objective", res.value.name, res.value.id))
                /\ pc' = NextPc("objectives", idx)
                /\ idx' = NextIdx("objectives", idx)
           ELSE /\ RecordFailure("objectives", "objective", obj.name, res)
                /\ UNCHANGED resolver
    /\ calls' = [calls EXCEPT !["main"] = IdleCall]
    /\ UNCHANGED <<args, input, workspace, exit>>
    /\ UNCHANGED <<serverNextId, remote, wire, faults>>

\* The template of the epic at idx: its own (loaded now), else the global one.
EpicTemplate(epic) ==
    IF IsSome(epic.template) THEN TemplateLoad(Unwrap(epic.template))
    ELSE Ok(args.template)

\* The epics loop up to the await of create_epic: an unreadable per-epic
\* template returns from run (the ? after transpose), a reference that does
\* not resolve is recorded, otherwise the request is sent.
EpicBegin ==
    /\ pc = "epics"
    /\ LET epic == input.epics[idx]
           template == EpicTemplate(epic)
           req == BuildEpicRequest(Unwrap(resolver), epic,
                                   IF IsSome(epic.template) THEN epic.template
                                   ELSE args.template)
       IN  IF ~template.ok
           THEN /\ pc' = "done"
                /\ exit' = "error"
                /\ UNCHANGED <<idx, results, output, calls, wire>>
           ELSE IF ~req.ok
           THEN /\ RecordFailure("epics", "epic", epic.name, req)
                /\ UNCHANGED <<exit, calls, wire>>
           ELSE /\ StartCreate("/epics", req.value)
                /\ pc' = "epic_call"
                /\ UNCHANGED <<idx, results, output, exit>>
    /\ UNCHANGED <<args, input, workspace, resolver>>
    /\ UNCHANGED <<serverNextId, remote, faults>>

\* create_epic has returned: the match of the epics loop.
EpicEnd ==
    /\ pc = "epic_call"
    /\ calls["main"].pc = "returned"
    /\ LET epic == input.epics[idx]
           res == Unwrap(calls["main"].ret)
       IN  IF res.ok
           THEN /\ resolver' = Some(register_epic(Unwrap(resolver), epic.name, res.value.id))
                /\ results' = [results EXCEPT !.epics_ok = results.epics_ok + 1]
                /\ output' = Append(output, CreatedEvent("epic", res.value.name, res.value.id))
                /\ pc' = NextPc("epics", idx)
                /\ idx' = NextIdx("epics", idx)
           ELSE /\ RecordFailure("epics", "epic", epic.name, res)
                /\ UNCHANGED resolver
    /\ calls' = [calls EXCEPT !["main"] = IdleCall]
    /\ UNCHANGED <<args, input, workspace, exit>>
    /\ UNCHANGED <<serverNextId, remote, wire, faults>>

\* The stories loop up to the await of create_story.
StoryBegin ==
    /\ pc = "stories"
    /\ LET story == input.stories[idx]
           req == BuildStoryRequest(Unwrap(resolver), story)
       IN  IF ~req.ok
           THEN /\ RecordFailure("stories", "story", story.name, req)
                /\ UNCHANGED <<calls, wire>>
           ELSE /\ StartCreate("/stories", req.value)
                /\ pc' = "story_call"
                /\ UNCHANGED <<idx, results, output>>
    /\ UNCHANGED <<args, input, workspace, resolver, exit>>
    /\ UNCHANGED <<serverNextId, remote, faults>>

\* create_story has returned: the match of the stories loop.
StoryEnd ==
    /\ pc = "story_call"
    /\ calls["main"].pc = "returned"
    /\ LET story == input.stories[idx]
           res == Unwrap(calls["main"].ret)
       IN  IF res.ok
           THEN /\ results' = [results EXCEPT !.stories_ok = results.stories_ok + 1]
                /\ output' = Append(output, CreatedEvent("story", res.value.name, res.value.id))
                /\ pc' = NextPc("stories", idx)
                /\ idx' = NextIdx("stories", idx)
           ELSE RecordFailure("stories", "story", story.name, res)
    /\ calls' = [calls EXCEPT !["main"] = IdleCall]
    /\ UNCHANGED <<args, input, workspace, resolver, exit>>
    /\ UNCHANGED <<serverNextId, remote, wire, faults>>

\* Summary that always ends the run without failure.
SummaryAlwaysOk ==
    /\ pc = "summary"
    /\ output' = Append(output,
         [event |-> "summary", objectives_created |-> results.objectives_ok,
          epics_created |-> results.epics_ok, stories_created |-> results.stories_ok,
          error_count |-> Len(results.errors), errors |-> results.errors])
    /\ exit' = "ok"
    /\ pc' = "done"
    /\ UNCHANGED <<args, input, workspace, idx, resolver, results>>
    /\ UNCHANGED <<calls, serverNextId, remote, wire, faults>>

\* The summary, then exit(1) if there are errors.
Summary ==
    /\ pc = "summary"
    /\ output' = Append(output,
         [event |-> "summary", objectives_created |-> results.objectives_ok,
          epics_created |-> results.epics_ok, stories_created |-> results.stories_ok,
          error_count |-> Len(results.errors), errors |-> results.errors])
    /\ exit' = IF results.errors # << >> THEN "exit1" ELSE "ok"
    /\ pc' = "done"
    /\ UNCHANGED <<args, input, workspace, idx, resolver, results>>
    /\ UNCHANGED <<calls, serverNextId, remote, wire, faults>>

(***************************************************************************)
(* The runs checked: the inputs, the remote's answers, the specification.  *)
(***************************************************************************)
MaxObjectives == 2

MaxEpics == 2

MaxStories == 1

MaxRecords == 3

MaxFaults == 1

NameA == <<"a">>

NameSpA == <<" ", "a">>

Name7 == <<"7">>

\* Record names and parent references: a plain name, the same name with a
\* leading space, a name made of digits.
Names == {NameA, NameSpA, Name7}

\* The workspace read: one person, one disabled person, one team, one
\* archived team, one workflow.
Ann == <<"a", "n", "n">>

Bob == <<"b", "o", "b">>

Core == <<"c", "o", "r", "e">>

Old == <<"o", "l", "d">>

Todo == <<"t", "o", "d", "o">>

Workspace0 ==
    [members |-> <<[id |-> "m-ann", name |-> Ann, mention_name |-> Ann,
                    email_address |-> None, disabled |-> FALSE],
                   [id |-> "m-bob", name |-> Bob, mention_name |-> Bob,
                    email_address |-> None, disabled |-> TRUE]>>,
     groups |-> <<[id |-> "g-core", name |-> Core, mention_name |-> Core, archived |-> FALSE],
                  [id |-> "g-old", name |-> Old, mention_name |-> Old, archived |-> TRUE]>>,
     workflows |-> <<[id |-> 500, default_state_id |-> 501,
                      states |-> <<[id |-> 501, name |-> Todo, state_type |-> "unstarted"]>>]>>]

\* The records of a batch: plain ones, with and without a parent reference
\* (a name, the name with a leading space, digits), and ones whose other
\* references resolve (Ann, Core, Todo, ok.md) or do not (Bob, missing.md).
ObjectiveRecords == {InputObjective(n, None) : n \in Names}

EpicRecords ==
    {InputEpic(NameA, None, << >>, << >>, None, None),
     InputEpic(NameA, Some(NameA), << >>, << >>, None, None),
     InputEpic(NameSpA, Some(NameSpA), << >>, << >>, None, None),
     InputEpic(NameA, Some(Name7), <<Ann>>, <<Core>>, None, Some("ok.md")),
     InputEpic(NameA, None, <<Ann, Bob>>, << >>, None, None),
     InputEpic(NameA, None, << >>, << >>, None, Some("missing.md"))}

StoryName == <<"s">>

StoryRecords ==
    {InputStory(StoryName, None, None, << >>, None, None),
     InputStory(StoryName, None, Some(NameA), <<Ann>>, Some(Core), Some(Todo)),
     InputStory(StoryName, None, Some(NameSpA), << >>, None, None),
     InputStory(StoryName, None, Some(Name7), <<Ann, Bob>>, None, None)}

SeqsUpTo(S, n) == UNION {[1..k -> S] : k \in 0..n}

\* The batches of at most n records, each tier within its bound.
BatchesUpTo(n) ==
    {b \in [objectives : SeqsUpTo(ObjectiveRecords, Min(n, MaxObjectives)),
            epics : SeqsUpTo(EpicRecords, Min(n, MaxEpics)),
            stories : SeqsUpTo(StoryRecords, Min(n, MaxStories))] :
        Len(b.objectives) + Len(b.epics) + Len(b.stories) <= n}

Templates == {None, Some("ok.md"), Some("missing.md")}

\* The answers of the remote to a run: success, a rejection, and up to
\* MaxFaults abnormal answers (503, no answer at all, an undecodable body).
Answers ==
    {HttpResponse(200, None, TRUE), HttpResponse(404, None, TRUE),
     HttpResponse(503, None, TRUE), HttpResponse(200, None, FALSE), TransportFailure}

IsFault(r) == ~r.transport \/ IsRetryable(r.status) \/ (IsSuccess(r.status) /\ ~r.json_ok)

\* The request in flight of task t is answered.
Answer(t) ==
    \E r \in Answers :
        /\ IsFault(r) => faults < MaxFaults
        /\ Respond(t, r)
        /\ faults' = IF IsFault(r) THEN faults + 1 ELSE faults
        /\ UNCHANGED wire
        /\ UNCHANGED pipelineVars

(***************************************************************************)
(* Spec: whole runs, from the entry of run, in both modes, over the        *)
(* batches of at most MaxRunRecords records.                               *)
(***************************************************************************)
MaxRunRecords == 1

Init ==
    /\ args \in {CreateArgs(d, t) : d \in BOOLEAN, t \in Templates}
    /\ input \in BatchesUpTo(MaxRunRecords)
    /\ workspace = Workspace0
    /\ pc = "start"
    /\ idx = 0
    /\ resolver = None
    /\ results = RunResults(0, 0, 0, << >>)
    /\ calls = [t \in Tasks |-> IdleCall]
    /\ serverNextId = 1
    /\ remote = << >>
    /\ wire = << >>
    /\ faults = 0
    /\ output = << >>
    /\ exit = "running"

Next ==
    \/ Start
    \/ ResolverFailed
    \/ ResolverBuilt
    \/ DryRun
    \/ ObjectiveBegin
    \/ ObjectiveEnd
    \/ EpicBegin
    \/ EpicEnd
    \/ StoryBegin
    \/ StoryEnd
    \/ Summary
    \/ \E t \in Tasks : Answer(t)
    \/ \E t \in Tasks : Wake(t)

Spec == Init /\ [][Next]_vars

(***************************************************************************)
(* SpecApply: the apply-mode loops, from the state in which Resolver::new  *)
(* has returned (the three reads answered at once), over the batches of    *)
(* at most MaxRecords records.                                             *)
(***************************************************************************)
InitApply ==
    /\ args = CreateArgs(FALSE, None)
    /\ input \in BatchesUpTo(MaxRecords) \ {InputFile(<< >>, << >>, << >>)}
    /\ workspace = Workspace0
    /\ pc = FirstFrom("objectives")
    /\ idx = 1
    /\ resolver = Some(NewResolver(workspace.members, workspace.groups, workspace.workflows))
    /\ results = RunResults(0, 0, 0, << >>)
    /\ calls = [t \in Tasks |-> IdleCall]
    /\ serverNextId = 1
    /\ remote = << >>
    /\ wire = <<ReadRequest("members"), ReadRequest("groups"), ReadRequest("workflows")>>
    /\ faults = 0
    /\ output = << >>
    /\ exit = "running"

NextApply ==
    \/ ObjectiveBegin
    \/ ObjectiveEnd
    \/ EpicBegin
    \/ EpicEnd
    \/ StoryBegin
    \/ StoryEnd
    \/ Summary
    \/ Answer("main")
    \/ Wake("main")

SpecApply == InitApply /\ [][NextApply]_vars

(***************************************************************************)
(* SpecClient: one call of the Transport Client under every sequence of    *)
(* answers: the create call of a batch of one objective (post), or the     *)
(* read of the members by Resolver::new (get) while the two other reads    *)
(* have returned.                                                          *)
(***************************************************************************)
Nines == [i \in 1..20 |-> "9"]

\* Retry-After: absent, seconds, not a number, a number of seconds above
\* u64::MAX.
RetryAfterValues ==
    {None, Some(<<"0">>), Some(<<"7">>), Some(<<"4", "5">>),
     Some(<<"s", "o", "o", "n">>), Some(Nines)}

ClientAnswers ==
    {HttpResponse(200, None, TRUE), HttpResponse(200, None, FALSE),
     HttpResponse(404, None, TRUE), TransportFailure}
    \cup {HttpResponse(s, h, TRUE) : s \in RETRYABLE, h \in RetryAfterValues}

ClientAnswer(t) ==
    \E r \in ClientAnswers :
        /\ Respond(t, r)
        /\ UNCHANGED <<wire, faults>>
        /\ UNCHANGED pipelineVars

\* A call that has returned the decoded body of a 200 at the first attempt.
ReturnedCall(req, payload) ==
    [NewCall(req) EXCEPT !.pc = "returned",
                         !.resp = Some(HttpResponse(200, None, TRUE)),
                         !.ret = Some(Ok(payload))]

InitClient ==
    /\ args = CreateArgs(FALSE, None)
    /\ input = InputFile(<<InputObjective(NameA, None)>>, << >>, << >>)
    /\ workspace = Workspace0
    /\ results = RunResults(0, 0, 0, << >>)
    /\ serverNextId = 1
    /\ remote = << >>
    /\ faults = 0
    /\ output = << >>
    /\ exit = "running"
    /\ \/ /\ pc = "objective_call"
          /\ idx = 1
          /\ resolver = Some(NewResolver(workspace.members, workspace.groups,
                                         workspace.workflows))
          /\ calls = [t \in Tasks |->
                       IF t = "main"
                       THEN NewCall(Request("POST", "/objectives",
                                            CreateObjectiveRequest(input.objectives[1])))
                       ELSE IdleCall]
          /\ wire = <<ReadRequest("members"), ReadRequest("groups"), ReadRequest("workflows"),
                      Request("POST", "/objectives",
                              CreateObjectiveRequest(input.objectives[1]))>>
       \/ /\ pc = "resolver"
          /\ idx = 0
          /\ resolver = None
          /\ calls = [t \in Tasks |->
                       IF t = "members" THEN NewCall(ReadRequest(t))
                       ELSE IF t = "groups" THEN ReturnedCall(ReadRequest(t), workspace.groups)
                       ELSE IF t = "workflows"
                       THEN ReturnedCall(ReadRequest(t), workspace.workflows)
                       ELSE IdleCall]
          /\ wire = <<ReadRequest("members"), ReadRequest("groups"), ReadRequest("workflows")>>

NextClient ==
    \/ \E t \in Tasks : ClientAnswer(t)
    \/ \E t \in Tasks : Wake(t)

SpecClient == InitClient /\ [][NextClient]_vars

(***************************************************************************)
(* SpecLive: whole runs, in both modes, over the batches of at most        *)
(* MaxRunRecords records, in which every request sent is answered, every   *)
(* sleep ends and run goes on whenever it can.  A create request gets any  *)
(* answer, a retryable status every time included; a read gets any answer  *)
(* but a retryable status (the retry loop is the same for both).           *)
(***************************************************************************)
\* The request in flight of task t is answered.
LiveAnswer(t) ==
    \E r \in Answers :
        /\ t \in Readers => ~IsRetryable(r.status)
        /\ Respond(t, r)
        /\ UNCHANGED <<wire, faults>>
        /\ UNCHANGED pipelineVars

\* The steps of run itself, between two awaits.
RunStep ==
    \/ Start
    \/ ResolverFailed
    \/ ResolverBuilt
    \/ DryRun
    \/ ObjectiveBegin
    \/ ObjectiveEnd
    \/ EpicBegin
    \/ EpicEnd
    \/ StoryBegin
    \/ StoryEnd
    \/ Summary

NextLive ==
    \/ RunStep
    \/ \E t \in Tasks : LiveAnswer(t)
    \/ \E t \in Tasks : Wake(t)

\* The runtime polls the future of run whenever it can proceed, a sleep
\* ends when its delay is over, and every request sent is answered or
\* fails.
FairLive ==
    /\ WF_vars(RunStep)
    /\ \A t \in Tasks : WF_vars(Wake(t))
    /\ \A t \in Tasks : WF_vars(LiveAnswer(t))

SpecLive == Init /\ [][NextLive]_vars /\ FairLive

(***************************************************************************)
(* SpecRuns: whole runs, in both modes, over the batches of at most        *)
(* MaxQuietRecords records, against a remote that answers every request    *)
(* at once, with 200 or with 404 (so no request is ever sent again).       *)
(***************************************************************************)
MaxQuietRecords == 2

PlainAnswers == {HttpResponse(200, None, TRUE), HttpResponse(404, None, TRUE)}

\* The request in flight of task t is answered 200 or 404.
PlainAnswer(t) ==
    \E r \in PlainAnswers :
        /\ Respond(t, r)
        /\ UNCHANGED <<wire, faults>>
        /\ UNCHANGED pipelineVars

InitRuns ==
    /\ args \in {CreateArgs(d, t) : d \in BOOLEAN, t \in Templates}
    /\ input \in BatchesUpTo(MaxQuietRecords)
    /\ workspace = Workspace0
    /\ pc = "start"
    /\ idx = 0
    /\ resolver = None
    /\ results = RunResults(0, 0, 0, << >>)
    /\ calls = [t \in Tasks |-> IdleCall]
    /\ serverNextId = 1
    /\ remote = << >>
    /\ wire = << >>
    /\ faults = 0
    /\ output = << >>
    /\ exit = "running"

NextRuns ==
    \/ Start
    \/ ResolverFailed
    \/ ResolverBuilt
    \/ DryRun
    \/ ObjectiveBegin
    \/ ObjectiveEnd
    \/ EpicBegin
    \/ EpicEnd
    \/ StoryBegin
    \/ StoryEnd
    \/ Summary
    \/ \E t \in Tasks : PlainAnswer(t)

SpecRuns == InitRuns /\ [][NextRuns]_vars

(***************************************************************************)
(* SpecResolver: the Resolver by itself, after Resolver::new: any sequence *)
(* of registrations and resolutions, over names with and without           *)
(* surrounding whitespace and names made of digits.  `output` holds the    *)
(* last call and what it returned.                                         *)
(***************************************************************************)
MaxId == 2

NameASp == <<"a", " ">>

NameB == <<"b">>

RegisteredNames == {NameA, NameSpA, Name7}

NameSp7Sp == <<" ", "7", " ">>

QueriedNames == {NameA, NameSpA, NameASp, NameB, Name7, NameSp7Sp}

\* One call of the Resolver: the method, its arguments, its result.
ResolverCall(op, name, id, result) ==
    [op |-> op, name |-> name, id |-> id, result |-> result]

RegisterObjective ==
    \E n \in RegisteredNames, i \in 1..MaxId :
        /\ resolver' = Some(register_objective(Unwrap(resolver), n, i))
        /\ output' = <<ResolverCall("register_objective", n, i, None)>>

RegisterEpic ==
    \E n \in RegisteredNames, i \in 1..MaxId :
        /\ resolver' = Some(register_epic(Unwrap(resolver), n, i))
        /\ output' = <<ResolverCall("register_epic", n, i, None)>>

ResolveObjective ==
    \E n \in QueriedNames :
        /\ output' = <<ResolverCall("resolve_objective", n, 0,
                                    Some(resolve_objective(Unwrap(resolver), n)))>>
        /\ UNCHANGED resolver

ResolveEpic ==
    \E n \in QueriedNames :
        /\ output' = <<ResolverCall("resolve_epic", n, 0,
                                    Some(resolve_epic(Unwrap(resolver), n)))>>
        /\ UNCHANGED resolver

InitResolver ==
    /\ args = CreateArgs(FALSE, None)
    /\ input = InputFile(<< >>, << >>, << >>)
    /\ workspace = Workspace0
    /\ pc = "resolver_calls"
    /\ idx = 0
    /\ resolver = Some(NewResolver(workspace.members, workspace.groups, workspace.workflows))
    /\ results = RunResults(0, 0, 0, << >>)
    /\ calls = [t \in Tasks |-> IdleCall]
    /\ serverNextId = 1
    /\ remote = << >>
    /\ wire = << >>
    /\ faults = 0
    /\ output = << >>
    /\ exit = "running"

NextResolver ==
    /\ \/ RegisterObjective
       \/ RegisterEpic
       \/ ResolveObjective
       \/ ResolveEpic
    /\ UNCHANGED <<args, input, workspace, pc, idx, results, exit>>
    /\ UNCHANGED <<calls, serverNextId, remote, wire, faults>>

SpecResolver == InitResolver /\ [][NextResolver]_vars

(***************************************************************************)
(* SpecDryRun: dry_run by itself, on a Resolver built from a snapshot      *)
(* (with or without registered names), over batches of at most             *)
(* MaxDryRecords records with and without defects, the maps iterating in   *)
(* any order.                                                              *)
(***************************************************************************)
MaxDryRecords == 2

Zed == <<"z", "e", "d">>

An == <<"a", "n">>

\* A snapshot whose person has a mention handle of her own.
Workspace2 ==
    [members |-> <<[id |-> "m-ann", name |-> Ann, mention_name |-> An,
                    email_address |-> None, disabled |-> FALSE]>>,
     groups |-> <<[id |-> "g-core", name |-> Core, mention_name |-> Core, archived |-> FALSE],
                  [id |-> "g-old", name |-> Old, mention_name |-> Old, archived |-> TRUE]>>,
     workflows |-> <<[id |-> 500, default_state_id |-> 501,
                      states |-> <<[id |-> 501, name |-> Todo, state_type |-> "unstarted"]>>]>>]

DryObjectiveRecords ==
    {InputObjective(NameA, None), InputObjective(<< >>, Some("bogus"))}

DryEpicRecords ==
    {InputEpic(NameA, Some(NameA), <<Ann>>, <<Core>>, Some("done"), Some("ok.md")),
     InputEpic(NameA, Some(Name7), << >>, << >>, None, None),
     InputEpic(<< >>, None, <<Zed>>, << >>, None, None),
     InputEpic(<< >>, Some(NameB), << >>, << >>, None, None),
     InputEpic(NameA, Some(NameB), <<Zed, Zed>>, <<Old>>, Some("bogus"), Some("missing.md"))}

DryStoryRecords ==
    {InputStory(StoryName, Some("bug"), Some(NameA), <<Ann>>, Some(Core), Some(Todo)),
     InputStory(StoryName, None, None, << >>, Some(Old), None),
     InputStory(<< >>, None, None, <<Zed>>, None, None),
     InputStory(StoryName, Some("epic"), Some(NameB), <<Zed>>, None, Some(Old))}

DryBatches ==
    {b \in [objectives : SeqsUpTo(DryObjectiveRecords, MaxDryRecords),
            epics : SeqsUpTo(DryEpicRecords, MaxDryRecords),
            stories : SeqsUpTo(DryStoryRecords, MaxDryRecords)] :
        Len(b.objectives) + Len(b.epics) + Len(b.stories) \in 1..MaxDryRecords}

\* The Resolver handed to dry_run: as built, or with the name "b"
\* registered in both dynamic maps.
DryResolvers(w) ==
    LET r == NewResolver(w.members, w.groups, w.workflows) IN
    {r, register_epic(register_objective(r, NameB, 9), NameB, 9)}

InitDryRun ==
    /\ args = CreateArgs(TRUE, None)
    /\ input \in DryBatches
    /\ workspace \in {Workspace0, Workspace2}
    /\ pc = "dry_run"
    /\ idx = 0
    /\ resolver \in {Some(r) : r \in DryResolvers(workspace)}
    /\ results = RunResults(0, 0, 0, << >>)
    /\ calls = [t \in Tasks |-> IdleCall]
    /\ serverNextId = 1
    /\ remote = << >>
    /\ wire = <<ReadRequest("members"), ReadRequest("groups"), ReadRequest("workflows")>>
    /\ faults = 0
    /\ output = << >>
    /\ exit = "running"

SpecDryRun == InitDryRun /\ [][DryRun]_vars

(***************************************************************************)
(* SpecSnapshot: Resolver::new and the static lookups over workspace       *)
(* snapshots of at most MaxListed people, teams and workflow definitions:  *)
(* enabled and disabled people and live and archived teams that share      *)
(* names, workflows with and without an "unstarted" state that share state *)
(* names.  `output` holds the last call and what it returned.              *)
(***************************************************************************)
MaxListed == 2

AnnMail == <<"a", "@", "x">>

Doing == <<"d", "o", "i", "n", "g">>

Shipped == <<"s", "h", "i", "p", "p", "e", "d">>

Later == <<"l", "a", "t", "e", "r">>

SnapshotPeople ==
    {[id |-> "m-ann", name |-> Ann, mention_name |-> An,
      email_address |-> Some(AnnMail), disabled |-> FALSE],
     [id |-> "m-ann-off", name |-> Ann, mention_name |-> An,
      email_address |-> Some(AnnMail), disabled |-> TRUE],
     [id |-> "m-bob", name |-> Bob, mention_name |-> Bob,
      email_address |-> None, disabled |-> TRUE]}

SnapshotTeams ==
    {[id |-> "g-core", name |-> Core, mention_name |-> Core, archived |-> FALSE],
     [id |-> "g-core-old", name |-> Core, mention_name |-> Old, archived |-> TRUE]}

SnapshotWorkflows ==
    {[id |-> 10, default_state_id |-> 12,
      states |-> <<[id |-> 11, name |-> Doing, state_type |-> "started"],
                   [id |-> 12, name |-> Shipped, state_type |-> "done"]>>],
     [id |-> 20, default_state_id |-> 21,
      states |-> <<[id |-> 21, name |-> Doing, state_type |-> "started"],
                   [id |-> 22, name |-> Todo, state_type |-> "unstarted"],
                   [id |-> 23, name |-> Later, state_type |-> "unstarted"]>>],
     [id |-> 30, default_state_id |-> 31,
      states |-> <<[id |-> 31, name |-> Todo, state_type |-> "unstarted"]>>]}

Snapshots ==
    [members : SeqsUpTo(SnapshotPeople, MaxListed),
     groups : SeqsUpTo(SnapshotTeams, MaxListed),
     workflows : SeqsUpTo(SnapshotWorkflows, MaxListed)]

PersonQueries == {Ann, An, AnnMail, Bob, <<" ">> \o Ann}

TeamQueries == {Core, Old}

StateQueries == {Doing, Todo, Later, Shipped, Zed}

SnapshotStories ==
    {InputStory(StoryName, None, None, << >>, None, ws) : ws \in {None, Some(Doing), Some(Zed)}}

ResolveMember ==
    \E n \in PersonQueries :
        output' = <<ResolverCall("resolve_member", n, 0,
                                 Some(resolve_member(Unwrap(resolver), n)))>>

ResolveGroup ==
    \E n \in TeamQueries :
        output' = <<ResolverCall("resolve_group", n, 0,
                                 Some(resolve_group(Unwrap(resolver), n)))>>

ResolveWorkflowState ==
    \E n \in StateQueries :
        output' = <<ResolverCall("resolve_workflow_state", n, 0,
                                 Some(resolve_workflow_state(Unwrap(resolver), n)))>>

\* build_and_create_story up to the request it submits.
BuildStory ==
    \E st \in SnapshotStories :
        output' = <<ResolverCall("build_story", st.workflow_state, 0,
                                 Some(BuildStoryRequest(Unwrap(resolver), st)))>>

InitSnapshot ==
    /\ args = CreateArgs(FALSE, None)
    /\ input = InputFile(<< >>, << >>, << >>)
    /\ workspace \in Snapshots
    /\ pc = "resolver_calls"
    /\ idx = 0
    /\ resolver = Some(NewResolver(workspace.members, workspace.groups, workspace.workflows))
    /\ results = RunResults(0, 0, 0, << >>)
    /\ calls = [t \in Tasks |-> IdleCall]
    /\ serverNextId = 1
    /\ remote = << >>
    /\ wire = << >>
    /\ faults = 0
    /\ output = << >>
    /\ exit = "running"

NextSnapshot ==
    /\ \/ ResolveMember
       \/ ResolveGroup
       \/ ResolveWorkflowState
       \/ BuildStory
    /\ UNCHANGED <<args, input, workspace, pc, idx, resolver, results, exit>>
    /\ UNCHANGED <<calls, serverNextId, remote, wire, faults>>

SpecSnapshot == InitSnapshot /\ [][NextSnapshot]_vars

(***************************************************************************)
(* Properties of the apply-mode loops, checked under SpecApply.            *)
(***************************************************************************)
\* The failures recorded for records of a kind.
FailuresOf(kind) == {i \in 1..Len(results.errors) : results.errors[i].kind = kind}

\* The records of a tier processed so far: created, or failure recorded.
ObjectivesProcessed == results.objectives_ok + Cardinality(FailuresOf("objective"))

EpicsProcessed == results.epics_ok + Cardinality(FailuresOf("epic"))

Sent(path) == \E i \in 1..Len(wire) : wire[i].method = "POST" /\ wire[i].path = path

\* An epic (a story) has been taken up: its references resolved, its
\* failure recorded, or its create request sent.
EpicsBegun ==
    pc = "epic_call" \/ Sent("/epics") \/ results.epics_ok > 0 \/ FailuresOf("epic") # {}

StoriesBegun ==
    pc = "story_call" \/ Sent("/stories") \/ results.stories_ok > 0 \/ FailuresOf("story") # {}

\* C1: in an apply-mode run no epic create request is sent and no epic
\* reference is resolved before every objective of the batch has been
\* processed (created and registered, or its failure recorded), and no
\* story create request is sent before every epic has been processed.
C1_TierOrder ==
    /\ EpicsBegun => ObjectivesProcessed = Len(input.objectives)
    /\ StoriesBegun => EpicsProcessed = Len(input.epics)

\* A story's create request is in flight after one objective was created
\* and the failure of the one epic was recorded.
C1_Witness ==
    /\ pc = "story_call"
    /\ Sent("/stories")
    /\ Len(input.objectives) = 1
    /\ results.objectives_ok = 1
    /\ Len(input.epics) = 1
    /\ Cardinality(FailuresOf("epic")) = 1

\* The outcome of the i-th objective and of the j-th epic, once their tier
\* is over: every record emits one event, in the order of processing.
ObjectiveOutcome(i) == output[i]

EpicOutcome(j) == output[Len(input.objectives) + j]

\* A parent reference that is a name: not a numeric ID.
IsNameRef(ref) == IsSome(ref) /\ ~IsSome(ParseI64(Trim(Unwrap(ref))))

CreatedObjectives(name) ==
    {i \in 1..Len(input.objectives) :
        input.objectives[i].name = name /\ ObjectiveOutcome(i).event = "created"}

CreatedEpics(name) ==
    {j \in 1..Len(input.epics) :
        input.epics[j].name = name /\ EpicOutcome(j).event = "created"}

\* C2: an epic that references by name an objective created earlier in the
\* same run is submitted with objective_ids equal to exactly the ID its
\* create call returned (with same-named objectives: the ID of one of
\* them), and likewise a story referencing an epic created in the run: the
\* create request carries that ID, and the reference does not fail.
C2_CreatedIdSubmitted ==
    /\ pc = "epic_call" =>
          LET ref == input.epics[idx].objective IN
          (IsNameRef(ref) /\ CreatedObjectives(Unwrap(ref)) # {}) =>
              \E i \in CreatedObjectives(Unwrap(ref)) :
                  calls["main"].req.body.objective_ids = Some(<<ObjectiveOutcome(i).id>>)
    /\ pc = "story_call" =>
          LET ref == input.stories[idx].epic IN
          (IsNameRef(ref) /\ CreatedEpics(Unwrap(ref)) # {}) =>
              \E j \in CreatedEpics(Unwrap(ref)) :
                  calls["main"].req.body.epic_id = Some(EpicOutcome(j).id)
    /\ \A k \in 1..Len(results.errors) :
          LET f == results.errors[k] IN
          /\ (f.kind = "epic" /\ f.error.err = "NameNotFound"
                /\ f.error.resource_type = "objective") =>
                 CreatedObjectives(f.error.name) = {}
          /\ (f.kind = "story" /\ f.error.err = "NameNotFound"
                /\ f.error.resource_type = "epic") =>
                 CreatedEpics(f.error.name) = {}

\* C3: every entry name -> id of the objective map (of the epic map) belongs
\* to an objective (epic) record of that name whose create call has
\* completed successfully and returned that id: the remote created it
\* under that id and the created event was emitted; there is no entry for a
\* record whose create call has not succeeded.
C3_MapsFromSuccess ==
    IsSome(resolver) =>
        LET r == Unwrap(resolver) IN
        /\ \A n \in DOMAIN r.objective_map :
              /\ \E i \in 1..Len(input.objectives) : input.objectives[i].name = n
              /\ \E k \in 1..Len(remote) :
                    remote[k] = [path |-> "/objectives", name |-> n, id |-> r.objective_map[n]]
              /\ \E k \in 1..Len(output) :
                    output[k] = CreatedEvent("objective", n, r.objective_map[n])
        /\ \A n \in DOMAIN r.epic_map :
              /\ \E j \in 1..Len(input.epics) : input.epics[j].name = n
              /\ \E k \in 1..Len(remote) :
                    remote[k] = [path |-> "/epics", name |-> n, id |-> r.epic_map[n]]
              /\ \E k \in 1..Len(output) :
                    output[k] = CreatedEvent("epic", n, r.epic_map[n])

\* The objective "a" has failed and has no entry, the objective "7" and an
\* epic "a" have been created and have theirs.
C3_Witness ==
    /\ IsSome(resolver)
    /\ DOMAIN Unwrap(resolver).objective_map = {Name7}
    /\ DOMAIN Unwrap(resolver).epic_map = {NameA}
    /\ \E k \in FailuresOf("objective") : results.errors[k].name = NameA

\* C4: the failure of a single record (a reference that does not resolve, a
\* create call that fails, a per-epic template that cannot be read) never
\* aborts the run: every record of the batch is processed and the run ends
\* with the summary.
C4_RunReachesSummary ==
    pc = "done" =>
        /\ output # << >>
        /\ output[Len(output)].event = "summary"
        /\ results.objectives_ok + results.epics_ok + results.stories_ok
              + Len(results.errors) = Total

(***************************************************************************)
(* Properties of the Transport Client, checked under SpecClient.           *)
(***************************************************************************)
LastSlept(c) == c.slept[Len(c.slept)]

\* The call of task t has received a response with an HTTP status.
Answered(c) == IsSome(c.resp) /\ Unwrap(c.resp).transport

\* C5: a request is sent again only after a response whose status is in
\* RETRYABLE and only while fewer than MAX_RETRIES retries have been made;
\* a call sends at most MAX_RETRIES + 1 requests, its retry counter starts
\* at 0 (the requests sent are the retries plus one), and the response to
\* attempt MAX_RETRIES is returned as it is, a retryable status included.
C5_RetryDiscipline ==
    \A t \in Tasks :
        LET c == calls[t] IN
        /\ c.sent <= MAX_RETRIES + 1
        /\ c.pc \in {"await", "returned"} => c.sent = c.attempt + 1
        /\ c.pc = "sleep" =>
              /\ c.sent = c.attempt
              /\ c.sent - 1 < MAX_RETRIES
              /\ Answered(c)
              /\ Unwrap(c.resp).status \in {429, 500, 503, 504}
        /\ (c.pc = "await" /\ c.sent > 1) =>
              /\ c.sent - 2 < MAX_RETRIES
              /\ Answered(c)
              /\ Unwrap(c.resp).status \in {429, 500, 503, 504}
        /\ (c.pc \in {"sleep", "returned"} /\ c.sent = MAX_RETRIES + 1) =>
              /\ c.pc = "returned"
              /\ (Answered(c) /\ ~IsSuccess(Unwrap(c.resp).status)) =>
                    c.ret = Some(ApiError(Unwrap(c.resp).status))

\* The sixth request is answered 503 and the call returns that response.
C5_Witness ==
    /\ calls["main"].pc = "returned"
    /\ calls["main"].sent = 6
    /\ Answered(calls["main"])
    /\ Unwrap(calls["main"].resp).status = 503
    /\ calls["main"].ret = Some(ApiError(503))

\* C6: every delay the retry loop sleeps is at most MAX_DELAY (30 s),
\* whatever its source; a 429 whose Retry-After value is above 30 waits
\* exactly 30.
C6_DelayCapped ==
    \A t \in Tasks :
        LET c == calls[t] IN
        /\ \A i \in 1..Len(c.slept) : c.slept[i].secs <= 30
        /\ (/\ c.pc = "sleep"
            /\ Unwrap(c.resp).status = 429
            /\ IsSome(RetryAfterSecs(Unwrap(c.resp)))
            /\ Unwrap(RetryAfterSecs(Unwrap(c.resp))) > 30) => LastSlept(c).secs = 30

\* A 429 with Retry-After: 45 at the third attempt: the loop sleeps 30.
C6_Witness ==
    /\ calls["main"].pc = "sleep"
    /\ calls["main"].attempt = 3
    /\ Unwrap(calls["main"].resp).status = 429
    /\ Unwrap(calls["main"].resp).retry_after = Some(<<"4", "5">>)
    /\ LastSlept(calls["main"]).secs = 30

\* C7: after a 429 whose Retry-After header parses as an integer n the delay
\* is min(n, 30) whatever the attempt; after a 429 whose header is absent or
\* does not parse the delay is the exponential delay 2^k of attempt k.
C7_RetryAfterHonoured ==
    \A t \in Tasks :
        LET c == calls[t] IN
        (c.pc = "sleep" /\ Unwrap(c.resp).status = 429) =>
            LET n == RetryAfterSecs(Unwrap(c.resp))
                k == c.attempt - 1
            IN  /\ IsSome(n) => LastSlept(c).secs = Min(Unwrap(n), 30)
                /\ ~IsSome(n) => LastSlept(c).secs = 2 ^ k

\* A 429 with Retry-After: 7 at attempt 3 (exponential delay 8): the loop
\* sleeps 7, after an earlier 429 without the header that made it sleep 1.
C7_Witness ==
    /\ calls["main"].pc = "sleep"
    /\ calls["main"].attempt = 4
    /\ Unwrap(calls["main"].resp).status = 429
    /\ Unwrap(calls["main"].resp).retry_after = Some(<<"7">>)
    /\ LastSlept(calls["main"]).secs = 7
    /\ calls["main"].slept[1] = [secs |-> 1, source |-> "exponential"]

\* C8: after a 500, 503 or 504 at attempt k (k in 0..4) the delay is BASE_DELAY
\* * 2^k (1, 2, 4, 8, 16), whether or not the response carries Retry-After.
C8_ServerErrorExponential ==
    \A t \in Tasks :
        LET c == calls[t] IN
        (c.pc = "sleep" /\ Unwrap(c.resp).status \in {500, 503, 504}) =>
            /\ c.attempt - 1 \in 0..4
            /\ LastSlept(c).secs = 2 ^ (c.attempt - 1)
            /\ LastSlept(c).secs \in {1, 2, 4, 8, 16}

\* A 504 with Retry-After: 7 at attempt 2: the loop sleeps 4.
C8_Witness ==
    /\ calls["main"].pc = "sleep"
    /\ calls["main"].attempt = 3
    /\ Unwrap(calls["main"].resp).status = 504
    /\ Unwrap(calls["main"].resp).retry_after = Some(<<"7">>)
    /\ LastSlept(calls["main"]).secs = 4

\* C9 as stated: within one call successive delays are non-decreasing until
\* the cap of 30 is reached, for every sequence of retryable statuses, with
\* or without Retry-After.
C9_NonDecreasing ==
    \A t \in Tasks :
        LET c == calls[t] IN
        \A i \in 1..(Len(c.slept) - 1) :
            (\A j \in 1..i : c.slept[j].secs < 30) => c.slept[i].secs <= c.slept[i + 1].secs

\* C9, amended: within one call the delays that are not taken from the
\* Retry-After header of a 429 are non-decreasing (they are 2^k at attempt
\* k, below the cap); a delay taken from Retry-After may be smaller than
\* the delay before it or larger than the delay after it.
C9_ExponentialNonDecreasing ==
    \A t \in Tasks :
        LET c == calls[t] IN
        \A i, j \in 1..Len(c.slept) :
            (i < j /\ c.slept[i].source = "exponential" /\ c.slept[j].source = "exponential")
                => c.slept[i].secs <= c.slept[j].secs

\* Three sleeps: 1 (exponential), 0 (Retry-After: 0 on a 429), 4 (exponential).
C9_Witness ==
    /\ Len(calls["main"].slept) = 3
    /\ calls["main"].slept[1] = [secs |-> 1, source |-> "exponential"]
    /\ calls["main"].slept[2] = [secs |-> 0, source |-> "retry-after"]
    /\ calls["main"].slept[3] = [secs |-> 4, source |-> "exponential"]

C11_ApiErrorOfLastResponse ==
    \A t \in Tasks :
        LET c == calls[t] IN
        c.pc = "returned" =>
            /\ Unwrap(c.ret).ok =>
                  (Answered(c) /\ Unwrap(c.resp).status \in 200..299)
            /\ (Answered(c) /\ Unwrap(c.resp).status \notin 200..299) =>
                  /\ ~Unwrap(c.ret).ok
                  /\ Unwrap(c.ret).err = "Api"
                  /\ Unwrap(c.ret).status = Unwrap(c.resp).status
                  /\ (Unwrap(c.resp).status \in {429, 500, 503, 504}
                        => c.sent = MAX_RETRIES + 1)

\* The sixth request is answered 429 with Retry-After: 7: the call fails
\* with ApiError 429.
C11_Witness ==
    /\ calls["main"].pc = "returned"
    /\ calls["main"].sent = 6
    /\ Unwrap(calls["main"].resp) = HttpResponse(429, Some(<<"7">>), TRUE)
    /\ Unwrap(calls["main"].ret) = ApiError(429)

\* C12: a transport failure at an attempt below the retry limit is followed
\* by another attempt of the same request (it is fatal for the call only
\* once the retries are exhausted).
C12_TransportRetried ==
    \A t \in Tasks :
        LET c == calls[t] IN
        (IsSome(c.resp) /\ ~Unwrap(c.resp).transport /\ c.attempt < MAX_RETRIES)
            => c.pc # "returned"

(***************************************************************************)
(* Properties of whole runs, checked under Spec.                           *)
(***************************************************************************)
\* A read of Resolver::new has returned an error / a decoded list.
ReadFailed(t) == calls[t].pc = "returned" /\ ~Unwrap(calls[t].ret).ok

ReadSucceeded(t) == calls[t].pc = "returned" /\ Unwrap(calls[t].ret).ok

\* The static maps of the workspace read: Ann, Core and Todo, and neither
\* the disabled Bob nor the archived Old.
StaticMapsComplete(r) ==
    /\ r.member_map = (Ann :> "m-ann")
    /\ r.group_map = (Core :> "g-core")
    /\ r.workflow_state_map = (Todo :> 501)
    /\ r.default_workflow_state_id = Some(501)

\* C13: Resolver::new issues the three reads concurrently and yields a
\* Resolver only if all three succeed: under every interleaving of their
\* responses and retries the pipeline never sees a Resolver with a map
\* missing; the Resolver appears in a step in which the three reads have
\* succeeded, with the same maps whatever the order in which they
\* completed, and its dynamic maps empty; and once a read has failed no
\* Resolver appears.
C13_AllOrNothing ==
    /\ [](IsSome(resolver) => StaticMapsComplete(Unwrap(resolver)))
    /\ [](pc \in {"start", "resolver"} => resolver = None)
    /\ [][(resolver = None /\ resolver' # None) =>
            /\ \A t \in Readers : ReadSucceeded(t)
            /\ Unwrap(resolver').objective_map = << >>
            /\ Unwrap(resolver').epic_map = << >>]_vars
    /\ [][(pc = "resolver" /\ \E t \in Readers : ReadFailed(t)) =>
            (resolver' = None /\ pc' \in {"resolver", "done"})]_vars

\* The Resolver is built after one of the reads was answered 503 and sent
\* again while the two others were already answered.
C13_Witness ==
    /\ IsSome(resolver)
    /\ StaticMapsComplete(Unwrap(resolver))
    /\ faults = 1
    /\ Len(wire) >= 4
    /\ wire[4] = ReadRequest("groups")

\* The run has ended in Resolver::new: the reads were started and no
\* Resolver was built.
ConstructionFailed == pc = "done" /\ resolver = None /\ wire # << >>

NothingProcessed ==
    /\ \A i \in 1..Len(wire) : wire[i].method = "GET"
    /\ remote = << >>
    /\ output = << >>
    /\ results = RunResults(0, 0, 0, << >>)

\* C14: if Resolver construction fails the run aborts before any record is
\* processed: the step after a failed read either lets another read go on
\* or ends the run with an error, and a run ended this way has sent no
\* create request, emitted no per-record event and no dry-run validation
\* result, and counted nothing.
C14_ConstructionFailureAborts ==
    /\ [][(pc = "resolver" /\ \E t \in Readers : ReadFailed(t)) =>
            \/ pc' = "resolver"
            \/ pc' = "done" /\ exit' = "error" /\ resolver' = None]_vars
    /\ [](ConstructionFailed => (exit = "error" /\ NothingProcessed))

\* A dry run of a batch of one record whose workflows read has failed after
\* a faulty answer to another read: the run is over, nothing on the output.
C14_Witness ==
    /\ ConstructionFailed
    /\ args.dry_run
    /\ Total = 1
    /\ faults = 1
    /\ exit = "error"
    /\ output = << >>

(***************************************************************************)
(* Further properties of the apply-mode loops, checked under SpecApply.    *)
(***************************************************************************)
\* The records of the batch in the order of the file: tier by tier, and in
\* input order within a tier.
TierRecords(kind, records) ==
    [i \in 1..Len(records) |-> [kind |-> kind, name |-> records[i].name]]

BatchOrder ==
    TierRecords("objective", input.objectives) \o TierRecords("epic", input.epics)
        \o TierRecords("story", input.stories)

\* The number of records before the one the loops are at.
Position ==
    CASE pc \in {"objectives", "objective_call"} -> idx - 1
      [] pc \in {"epics", "epic_call"} -> Len(input.objectives) + idx - 1
      [] pc \in {"stories", "story_call"} ->
            Len(input.objectives) + Len(input.epics) + idx - 1
      [] OTHER -> Total

\* The failure entries of the error events of a sequence of events, in order.
RECURSIVE FailuresIn(_)
FailuresIn(events) ==
    IF events = << >> THEN << >>
    ELSE (IF Head(events).event = "error"
          THEN <<Failure(Head(events).kind, Head(events).name, Unwrap(Head(events).error))>>
          ELSE << >>) \o FailuresIn(Tail(events))

\* C15: within each tier apply mode processes the records one at a time in
\* input order: while record i is being resolved or its request is in
\* flight, exactly the records before it have their outcome recorded (one
\* event each, in the order of the file, counted as a success or as a
\* failure), and no other call is in flight; so the failure list is ordered
\* by tier and by input order within a tier.
C15_OneAtATime ==
    (pc \in {"objectives", "objective_call", "epics", "epic_call", "stories", "story_call"}) =>
        /\ Len(output) = Position
        /\ results.objectives_ok + results.epics_ok + results.stories_ok
              + Len(results.errors) = Position
        /\ \A k \in 1..Len(output) :
              /\ output[k].kind = BatchOrder[k].kind
              /\ output[k].name = BatchOrder[k].name
        /\ results.errors = FailuresIn(output)
        /\ (pc \in {"objectives", "epics", "stories"}) => calls["main"] = IdleCall
        /\ (pc \in {"objective_call", "epic_call", "story_call"}) =>
              calls["main"].req.body.name = BatchOrder[Position + 1].name

\* The request of the second epic is in flight after the objective was
\* created and the failure of the first epic recorded.
C15_Witness ==
    /\ pc = "epic_call"
    /\ idx = 2
    /\ Len(input.objectives) = 1
    /\ results.objectives_ok = 1
    /\ Len(results.errors) = 1
    /\ results.errors[1].kind = "epic"
    /\ calls["main"].pc = "await"

\* Every entry of map m is an entry of map m2, with the same ID.
Preserved(m, m2) == \A n \in DOMAIN m : n \in DOMAIN m2 /\ m2[n] = m[n]

KeptOrOverwritten(m, m2, records, call) ==
    \A n \in DOMAIN m :
        /\ n \in DOMAIN m2
        /\ m2[n] # m[n] =>
              /\ pc = call
              /\ records[idx].name = n
              /\ m2[n] = Unwrap(calls["main"].ret).value.id
              /\ m2[n] > m[n]

IsCreate(q) == q.method = "POST"

CreateRequests == SelectSeq(wire, IsCreate)

TierPath(kind) ==
    CASE kind = "objective" -> "/objectives"
      [] kind = "epic" -> "/epics"
      [] kind = "story" -> "/stories"

\* No reference of the run has failed to resolve.
AllReferencesResolve ==
    \A k \in 1..Len(results.errors) : results.errors[k].error.err # "NameNotFound"

\* Every create request was answered 2xx on its first attempt: no create
\* call has failed with an API or transport error, and every abnormal answer
\* of the remote was a 2xx with an undecodable body (none was a 503, which
\* is retried).
FailuresWith(err) == {k \in 1..Len(results.errors) : results.errors[k].error.err = err}

AllAnswered2xx ==
    /\ FailuresWith("Api") = {}
    /\ FailuresWith("Transport") = {}
    /\ faults = Cardinality(FailuresWith("Decode"))

TemplatesReadable ==
    \A j \in 1..Len(input.epics) : EpicTemplate(input.epics[j]).ok

AtRecord == pc \in {"objectives", "objective_call", "epics", "epic_call", "stories", "story_call"}

\* The step ends the processing of the record the loops are at.
RecordProcessed == AtRecord /\ pc' # "done" /\ Position' = Position + 1

\* The step increments the success counter of the tier of `kind`, only.
CountsSuccess(kind) ==
    CASE kind = "objective" ->
            results' = [results EXCEPT !.objectives_ok = results.objectives_ok + 1]
      [] kind = "epic" ->
            results' = [results EXCEPT !.epics_ok = results.epics_ok + 1]
      [] kind = "story" ->
            results' = [results EXCEPT !.stories_ok = results.stories_ok + 1]

\* The step appends one failure entry that names the record, only.
AppendsFailure(rec) ==
    /\ Len(results'.errors) = Len(results.errors) + 1
    /\ results' = [results EXCEPT !.errors =
                      Append(results.errors, results'.errors[Len(results'.errors)])]
    /\ results'.errors[Len(results'.errors)].kind = rec.kind
    /\ results'.errors[Len(results'.errors)].name = rec.name

\* C20: in apply mode every processed record changes the run results
\* exactly once: the step that ends its processing either increments the
\* success counter of its own tier or appends one failure entry naming the
\* record, never both and never neither, and no other step changes the
\* results; so at the summary objectives_ok + epics_ok + stories_ok + the
\* number of failures equals the number of pending records.
C20_OneChangePerRecord ==
    /\ [][IF RecordProcessed
          THEN /\ CountsSuccess(BatchOrder[Position + 1].kind)
                    \/ AppendsFailure(BatchOrder[Position + 1])
               /\ ~(CountsSuccess(BatchOrder[Position + 1].kind)
                      /\ AppendsFailure(BatchOrder[Position + 1]))
          ELSE results' = results]_vars
    /\ [](pc = "summary" =>
            results.objectives_ok + results.epics_ok + results.stories_ok
                + Len(results.errors) = Total)
    /\ []((output # << >> /\ output[Len(output)].event = "summary") =>
            output[Len(output)].objectives_created + output[Len(output)].epics_created
                + output[Len(output)].stories_created + output[Len(output)].error_count = Total)

\* At the summary of a batch of three: two records counted as created and
\* one failure, of the second epic.
C20_Witness ==
    /\ pc = "summary"
    /\ Total = 3
    /\ Len(input.epics) = 2
    /\ results.objectives_ok + results.epics_ok + results.stories_ok = 2
    /\ Len(results.errors) = 1
    /\ results.errors[1].kind = "epic"
    /\ results.errors[1].name = input.epics[2].name

(***************************************************************************)
(* Properties of the Resolver, checked under SpecResolver.                 *)
(***************************************************************************)
LastCall == output[1]

Called(op) == output # << >> /\ LastCall.op = op

\* The name is a numeric ID for resolve_objective and resolve_epic.
IsNumericRef(name) == IsSome(ParseI64(Trim(name)))

\* C17: for every name n and ID i, after register_objective(n, i) a call
\* resolve_objective(n) with that exact name succeeds and returns i, and
\* likewise register_epic / resolve_epic, for every name string, names with
\* leading or trailing whitespace and names made of digits included.
C17_RegisterThenResolve ==
    [][/\ (Called("register_objective") /\ Called("resolve_objective")'
             /\ LastCall'.name = LastCall.name)
          => LastCall'.result = Some(Ok(LastCall.id))
       /\ (Called("register_epic") /\ Called("resolve_epic")'
             /\ LastCall'.name = LastCall.name)
          => LastCall'.result = Some(Ok(LastCall.id))]_vars

Ended == pc = "done"

LastOutput == output[Len(output)]

SummaryEmitted == output # << >> /\ LastOutput.event = "summary"

ValidationEmitted == output # << >> /\ LastOutput.event = "dry_run"

\* The exit status signals failure: exit(1), or run returned an error.
FailureExit == exit \in {"exit1", "error"}

\* The created events of the output.
CreatedEvents == {k \in 1..Len(output) : output[k].event = "created"}

\* C21 as stated: a run ends with a failure exit status if and only if its
\* failure list (apply mode) or violation list (dry-run mode) is non-empty,
\* and in apply mode the failure exit happens only after the summary has
\* been emitted.
C21_FailureExitIffFailures ==
    Ended =>
        /\ ~args.dry_run => (FailureExit <=> results.errors # << >>)
        /\ (args.dry_run /\ ValidationEmitted) => (FailureExit <=> LastOutput.errors # << >>)
        /\ (args.dry_run /\ ~ValidationEmitted) => ~FailureExit
        /\ (~args.dry_run /\ FailureExit) => SummaryEmitted

\* C21, amended: a run that reaches the summary (apply mode) or the
\* validation result (dry-run mode) ends with a failure exit status if and
\* only if its failure list, respectively its violation list, is non-empty;
\* in apply mode exit(1) happens only after the summary has been emitted,
\* and the summary reports the successes recorded before a failure, each of
\* which has its created event.  A run that ends before (the Resolver could
\* not be built, a template could not be loaded) ends with an error status
\* and emits neither; a run of an empty batch ends without failure.
C21_FailureExitAfterSummary ==
    Ended =>
        /\ SummaryEmitted =>
              /\ ~args.dry_run
              /\ exit = (IF results.errors # << >> THEN "exit1" ELSE "ok")
              /\ LastOutput.errors = results.errors
              /\ LastOutput.objectives_created + LastOutput.epics_created
                    + LastOutput.stories_created = Cardinality(CreatedEvents)
              /\ Cardinality(CreatedEvents) + Len(results.errors) = Total
        /\ ValidationEmitted =>
              /\ args.dry_run
              /\ exit = (IF LastOutput.errors # << >> THEN "exit1" ELSE "ok")
              /\ LastOutput.valid = (LastOutput.errors = << >>)
        /\ (exit = "exit1" /\ ~args.dry_run) => SummaryEmitted
        /\ (exit = "exit1" /\ args.dry_run) => ValidationEmitted
        /\ (~SummaryEmitted /\ ~ValidationEmitted) =>
              exit = (IF Total = 0 THEN "ok" ELSE "error")

\* An apply-mode run of two records has ended with exit(1) after the
\* summary: the first record was created and reported, the second failed.
C21_Witness ==
    /\ Ended
    /\ ~args.dry_run
    /\ Total = 2
    /\ SummaryEmitted
    /\ exit = "exit1"
    /\ output[1].event = "created"
    /\ output[2].event = "error"
    /\ Len(results.errors) = 1

\* The requests sent are workspace reads only.
OnlyReadsSent ==
    \A k \in 1..Len(wire) : wire[k].method = "GET" /\ wire[k] \in {ReadRequest(t) : t \in Readers}

\* C22: in dry-run mode no create request (objective, epic or story) is
\* ever sent, whether or not validation passes: the only requests of a
\* dry-run are the workspace reads, nothing is created at the remote and no
\* record is counted or registered.
C22_DryRunSendsNoCreate ==
    args.dry_run =>
        /\ OnlyReadsSent
        /\ remote = << >>
        /\ calls["main"] = IdleCall
        /\ results = RunResults(0, 0, 0, << >>)
        /\ IsSome(resolver) =>
              (Unwrap(resolver).objective_map = EmptyMap /\ Unwrap(resolver).epic_map = EmptyMap)

\* A dry-run whose validation failed has ended: the three reads (one of
\* them sent twice) are all that was sent.
C22_Witness ==
    /\ args.dry_run
    /\ Ended
    /\ ValidationEmitted
    /\ LastOutput.errors # << >>
    /\ exit = "exit1"
    /\ Len(wire) = 4
    /\ OnlyReadsSent

\* Each of the three workspace reads has been sent.
ReadsIssued == \A t \in Readers : \E k \in 1..Len(wire) : wire[k] = ReadRequest(t)

\* The Resolver of the run is the one built from the whole snapshot.
FullyConstructed ==
    /\ IsSome(resolver)
    /\ Unwrap(resolver) = NewResolver(workspace.members, workspace.groups, workspace.workflows)

\* C23 as stated: in dry-run mode, for every batch, a batch with no records
\* included, the three workspace reads are issued and a Resolver is fully
\* constructed before the validation result is produced (a dry-run that
\* ends without an error has done all three).
C23_DryRunAlwaysFetches ==
    (args.dry_run /\ Ended /\ exit # "error") =>
        (ReadsIssued /\ FullyConstructed /\ ValidationEmitted)

\* C23, amended: in dry-run mode, for every batch with at least one record,
\* the validation result is produced only after the three workspace reads
\* were issued and a Resolver was fully constructed, and a dry-run of such a
\* batch that ends without an error has produced it.  A batch with no
\* records ends the run at once: no read is issued, no Resolver is
\* constructed and no validation result is produced.
C23_FetchesBeforeValidation ==
    /\ []((args.dry_run /\ ValidationEmitted) => (Total > 0 /\ ReadsIssued /\ FullyConstructed))
    /\ [][(args.dry_run /\ ~ValidationEmitted /\ ValidationEmitted') =>
             (ReadsIssued /\ FullyConstructed /\ UNCHANGED <<wire, resolver>>)]_vars
    /\ []((args.dry_run /\ Ended /\ exit # "error" /\ Total > 0) => ValidationEmitted)
    /\ []((Total = 0 /\ pc # "start") =>
             (Ended /\ exit = "ok" /\ wire = << >> /\ resolver = None /\ output = << >>))

\* A dry-run of a one-record batch has produced its validation result
\* after the three reads.
C23_Witness ==
    /\ args.dry_run
    /\ Total = 1
    /\ ValidationEmitted
    /\ LastOutput.valid
    /\ ReadsIssued
    /\ FullyConstructed

(***************************************************************************)
(* Properties of dry-run validation, checked under SpecDryRun.             *)
(***************************************************************************)
RECURSIVE SumSeq(_)
SumSeq(ns) == IF ns = << >> THEN 0 ELSE Head(ns) + SumSeq(Tail(ns))

Count(b) == IF b THEN 1 ELSE 0

\* The references of refs that are no key of m once trimmed.
CountUnknown(refs, m) == Cardinality({i \in 1..Len(refs) : Trim(refs[i]) \notin DOMAIN m})

\* The parent reference is accepted by none of the three ways.
ParentUnresolved(ref, batch_names, m) ==
    /\ IsSome(ref)
    /\ ~IsSome(ParseI64(Unwrap(ref)))
    /\ Unwrap(ref) \notin batch_names
    /\ Trim(Unwrap(ref)) \notin DOMAIN m

\* The number of checks a record violates, each check taken by itself.
ObjectiveChecksViolated(o) ==
    Count(o.name = << >>) + Count(IsSome(o.state) /\ Unwrap(o.state) \notin LegalStates)

EpicChecksViolated(e, in, r) ==
    Count(e.name = << >>)
    + Count(IsSome(e.state) /\ Unwrap(e.state) \notin LegalStates)
    + CountUnknown(e.owners, r.member_map)
    + CountUnknown(e.teams, r.group_map)
    + Count(ParentUnresolved(e.objective, NamesOf(in.objectives), r.objective_map))
    + Count(IsSome(e.template) /\ Unwrap(e.template) \notin ExistingFiles)

StoryChecksViolated(st, in, r) ==
    Count(st.name = << >>)
    + Count(IsSome(st.story_type) /\ Unwrap(st.story_type) \notin LegalStoryTypes)
    + CountUnknown(st.owners, r.member_map)
    + CountUnknown(st.team, r.group_map)
    + Count(ParentUnresolved(st.epic, NamesOf(in.epics), r.epic_map))
    + CountUnknown(st.workflow_state, r.workflow_state_map)

ChecksViolated(in, r) ==
    SumSeq([i \in 1..Len(in.objectives) |-> ObjectiveChecksViolated(in.objectives[i])])
    + SumSeq([i \in 1..Len(in.epics) |-> EpicChecksViolated(in.epics[i], in, r)])
    + SumSeq([i \in 1..Len(in.stories) |-> StoryChecksViolated(in.stories[i], in, r)])

\* C24: dry-run validation never short-circuits: the violation list has
\* exactly one entry for every record and every check the record violates
\* (empty name, illegal state or type, each unresolved owner, team or stage,
\* unresolved parent, missing template file), so a record that violates k
\* checks contributes k entries; an epic or story with an empty name and an
\* unknown owner contributes two.
C24_NoShortCircuit ==
    ValidationEmitted =>
        Len(LastOutput.errors) = ChecksViolated(input, Unwrap(resolver))

\* The violation list has an entry for the parent reference of a record.
ParentFlagged(kind, rec, ref) ==
    \E k \in 1..Len(LastOutput.errors) :
        LET v == LastOutput.errors[k] IN
        v.kind = kind /\ v.name = rec.name /\ v.check = "parent not found" /\ v.subject = ref

\* C25: dry-run accepts an epic's objective reference (a story's epic
\* reference) if and only if the reference is numeric, or names an objective
\* (epic) record of the same batch, or is a key of the Resolver's objective
\* (epic) map; every other reference produces a violation naming the
\* referencing record and the reference.
C25_ParentAcceptedIff ==
    ValidationEmitted =>
        /\ \A j \in 1..Len(input.epics) :
              LET e == input.epics[j] IN
              IsSome(e.objective) =>
                  (~ParentFlagged("Epic", e, e.objective)
                     <=> ~ParentUnresolved(e.objective, NamesOf(input.objectives),
                                           Unwrap(resolver).objective_map))
        /\ \A j \in 1..Len(input.stories) :
              LET st == input.stories[j] IN
              IsSome(st.epic) =>
                  (~ParentFlagged("Story", st, st.epic)
                     <=> ~ParentUnresolved(st.epic, NamesOf(input.epics),
                                           Unwrap(resolver).epic_map))

\* C26: dry-run validation is deterministic: the violation list produced
\* for a batch and a snapshot is the same, entry for entry and in the same
\* order, hint lists included, whatever the order in which the Resolver's
\* maps iterate; two dry-runs of the same batch against the same snapshot
\* produce identical lists.
C26_Deterministic ==
    ValidationEmitted =>
        \A h \in IterationOrders(StaticKeys(Unwrap(resolver))) :
            LastOutput.errors = DryRunErrors(input, Unwrap(resolver), h)

\* A violation list with an unknown-user entry whose hint names the two
\* keys of the member map, in sorted order.
C26_Witness ==
    /\ ValidationEmitted
    /\ \E k \in 1..Len(LastOutput.errors) :
          /\ LastOutput.errors[k].check = "unknown user"
          /\ LastOutput.errors[k].hint.preview = <<An, Ann>>

(***************************************************************************)
(* Properties of Resolver::new and the static lookups, checked under       *)
(* SpecSnapshot.                                                           *)
(***************************************************************************)
\* C27: the Resolver's default-stage ID is the ID of the first stage tagged
\* "unstarted" in iteration order over all workflow definitions
\* (definitions in fetched order, stages in declared order), whichever
\* definition contains it; only when no definition contains such a stage is
\* it the first definition's declared default-stage ID.
C27_FirstUnstartedAcrossAll ==
    LET w == workspace.workflows
        r == Unwrap(resolver)
    IN  IsSome(resolver) =>
            r.default_workflow_state_id =
                (IF IsSome(FirstUnstarted(AllStates(w))) THEN FirstUnstarted(AllStates(w))
                 ELSE IF w # << >> THEN Some(w[1].default_state_id)
                 ELSE None)

\* The story whose request the last call built, and the request.
BuiltStory == InputStory(StoryName, None, None, << >>, None, LastCall.name)

BuiltRequest == Unwrap(LastCall.result)

\* C28: a story with no explicit workflow-stage reference is submitted with
\* workflow_state_id equal to the Resolver's default-stage ID, and a story
\* with an explicit stage reference is submitted with the ID that stage name
\* resolves to, never the default (and is not submitted when the name does
\* not resolve); when no workflow definition has an "unstarted" stage the
\* default used is the first definition's declared default-stage ID.
C28_StoryStage ==
    Called("build_story") =>
        LET r == Unwrap(resolver)
            w == workspace.workflows
            ws == BuiltStory.workflow_state
        IN  /\ ws = None =>
                  /\ BuiltRequest.ok
                  /\ BuiltRequest.value.workflow_state_id = r.default_workflow_state_id
                  /\ (w # << >> /\ FirstUnstarted(AllStates(w)) = None) =>
                        BuiltRequest.value.workflow_state_id = Some(w[1].default_state_id)
            /\ (IsSome(ws) /\ resolve_workflow_state(r, Unwrap(ws)).ok) =>
                  /\ BuiltRequest.ok
                  /\ BuiltRequest.value.workflow_state_id
                        = Some(resolve_workflow_state(r, Unwrap(ws)).value)
            /\ (IsSome(ws) /\ ~resolve_workflow_state(r, Unwrap(ws)).ok) =>
                  BuiltRequest = NameNotFound("workflow state", Unwrap(ws))

\* A story that names the state "doing" is submitted with the ID 21 that
\* the name resolves to, while the Resolver's default is 12.
C28_Witness ==
    /\ Called("build_story")
    /\ LastCall.name = Some(Doing)
    /\ BuiltRequest.ok
    /\ BuiltRequest.value.workflow_state_id = Some(21)
    /\ Unwrap(resolver).default_workflow_state_id = Some(12)

\* The definitions, by position in fetched order, with a stage named n.
DefinitionsWith(n) ==
    {i \in 1..Len(workspace.workflows) :
        \E k \in 1..Len(workspace.workflows[i].states) : workspace.workflows[i].states[k].name = n}

Last(S) == CHOOSE i \in S : \A j \in S : j <= i

\* The IDs of the stages named n in definition i.
StageIds(i, n) ==
    {workspace.workflows[i].states[k].id : k \in
        {k \in 1..Len(workspace.workflows[i].states) : workspace.workflows[i].states[k].name = n}}

\* C29: when several workflow definitions contain a stage with the same
\* name, resolve_workflow_state of that name returns the ID of the stage in
\* the last such definition in fetched order (last write wins); a stage name
\* occurring in exactly one definition resolves to that stage's ID (and a
\* name occurring in none fails).
C29_LastDefinitionWins ==
    Called("resolve_workflow_state") =>
        LET n == LastCall.name
            res == Unwrap(LastCall.result)
        IN  IF DefinitionsWith(n) = {} THEN res = NameNotFound("workflow state", n)
            ELSE res.ok /\ StageIds(Last(DefinitionsWith(n)), n) = {res.value}

\* "doing" is a stage of both definitions, 11 in the first and 21 in the
\* second: it resolves to 21.
C29_Witness ==
    /\ Called("resolve_workflow_state")
    /\ LastCall.name = Doing
    /\ Cardinality(DefinitionsWith(Doing)) = 2
    /\ StageIds(1, Doing) = {11}
    /\ Unwrap(LastCall.result) = Ok(21)

\* The enabled people (live teams) that carry the string q as name, mention
\* handle or email.
EnabledCarrying(q) ==
    {i \in 1..Len(workspace.members) :
        LET m == workspace.members[i] IN
        ~m.disabled /\ (m.name = q \/ m.mention_name = q \/ m.email_address = Some(q))}

LiveCarrying(q) ==
    {i \in 1..Len(workspace.groups) :
        LET g == workspace.groups[i] IN
        ~g.archived /\ (g.name = q \/ g.mention_name = q)}

DisabledIds == {workspace.members[i].id : i \in {i \in 1..Len(workspace.members) : workspace.members[i].disabled}}

ArchivedIds == {workspace.groups[i].id : i \in {i \in 1..Len(workspace.groups) : workspace.groups[i].archived}}

\* C30: for every snapshot, resolve_member never returns the ID of a
\* disabled person and resolve_group never returns the ID of an archived
\* team, whatever name, mention handle or email is queried: the ID returned
\* is that of an enabled person (live team) carrying the queried string, and
\* a string carried only by disabled people or archived teams fails with
\* NameNotFound.
C30_DisabledExcluded ==
    /\ Called("resolve_member") =>
          LET q == Trim(LastCall.name)
              res == Unwrap(LastCall.result)
          IN  IF EnabledCarrying(q) = {} THEN res = NameNotFound("user", LastCall.name)
              ELSE /\ res.ok
                   /\ res.value \notin DisabledIds
                   /\ \E i \in EnabledCarrying(q) : workspace.members[i].id = res.value
    /\ Called("resolve_group") =>
          LET q == Trim(LastCall.name)
              res == Unwrap(LastCall.result)
          IN  IF LiveCarrying(q) = {} THEN res = NameNotFound("team", LastCall.name)
              ELSE /\ res.ok
                   /\ res.value \notin ArchivedIds
                   /\ \E i \in LiveCarrying(q) : workspace.groups[i].id = res.value

\* "ann" is the name of an enabled person and, later in the list, of a
\* disabled one: it resolves to the enabled person's ID.
C30_Witness ==
    /\ Called("resolve_member")
    /\ LastCall.name = Ann
    /\ Len(workspace.members) = 2
    /\ ~workspace.members[1].disabled
    /\ workspace.members[2].disabled /\ workspace.members[2].name = Ann
    /\ Unwrap(LastCall.result) = Ok("m-ann")

(***************************************************************************)
(* Registration, resolution and failures in the apply-mode loops, checked  *)
(* under SpecApply.                                                        *)
(***************************************************************************)
\* The step counts the record the loops are at as a created objective
\* (epic, story).
ObjectiveCounted == results'.objectives_ok = results.objectives_ok + 1

EpicCounted == results'.epics_ok = results.epics_ok + 1

\* The ID the create call of the main task has returned.
ReturnedId == Unwrap(calls["main"].ret).value.id

\* C31: each successful objective or epic create is followed by exactly one
\* registration of that record's name with the returned ID, in the step
\* that records the success and so before the next record's references are
\* resolved; no other step changes the Resolver (no registration for a
\* failed record or for a story), so there are as many registrations as
\* objectives_ok + epics_ok.
C31_RegisteredOncePerSuccess ==
    [][/\ ObjectiveCounted =>
            resolver' = Some(register_objective(Unwrap(resolver),
                                                BatchOrder[Position + 1].name, ReturnedId))
       /\ EpicCounted =>
            resolver' = Some(register_epic(Unwrap(resolver),
                                           BatchOrder[Position + 1].name, ReturnedId))
       /\ (ObjectiveCounted \/ EpicCounted) =>
            (resolver' # resolver /\ RecordProcessed /\ remote[Len(remote)].id = ReturnedId)
       /\ ~(ObjectiveCounted \/ EpicCounted) => resolver' = resolver]_vars

\* After a failed objective and a created epic: the epic is registered
\* under the ID the remote gave it, the objective is not registered.
C31_Witness ==
    /\ results.objectives_ok = 0
    /\ results.epics_ok = 1
    /\ Len(results.errors) = 1
    /\ results.errors[1].kind = "objective"
    /\ Unwrap(resolver).objective_map = EmptyMap
    /\ DOMAIN Unwrap(resolver).epic_map = {input.epics[1].name}
    /\ Unwrap(resolver).epic_map[input.epics[1].name] = remote[Len(remote)].id

\* Every reference field of an epic (of a story) resolves in Resolver r.
EpicReferencesResolve(r, e) ==
    /\ \A i \in 1..Len(e.owners) : resolve_member(r, e.owners[i]).ok
    /\ \A i \in 1..Len(e.teams) : resolve_group(r, e.teams[i]).ok
    /\ IsSome(e.objective) => resolve_objective(r, Unwrap(e.objective)).ok

StoryReferencesResolve(r, s) ==
    /\ \A i \in 1..Len(s.owners) : resolve_member(r, s.owners[i]).ok
    /\ IsSome(s.team) => resolve_group(r, Unwrap(s.team)).ok
    /\ IsSome(s.epic) => resolve_epic(r, Unwrap(s.epic)).ok
    /\ IsSome(s.workflow_state) => resolve_workflow_state(r, Unwrap(s.workflow_state)).ok

\* The owner list of a request body holds one ID per owner of the record,
\* each the ID of that owner.
OwnersComplete(body, owners) ==
    IF owners = << >> THEN body.owner_ids = None
    ELSE /\ IsSome(body.owner_ids)
         /\ Len(Unwrap(body.owner_ids)) = Len(owners)
         /\ \A i \in 1..Len(owners) :
               Ok(Unwrap(body.owner_ids)[i]) = resolve_member(Unwrap(resolver), owners[i])

TeamsComplete(body, teams) ==
    IF teams = << >> THEN body.group_ids = None
    ELSE /\ IsSome(body.group_ids)
         /\ Len(Unwrap(body.group_ids)) = Len(teams)
         /\ \A i \in 1..Len(teams) :
               Ok(Unwrap(body.group_ids)[i]) = resolve_group(Unwrap(resolver), teams[i])

\* The step records the failure of the record the loops are at to resolve a
\* reference, and sends nothing.
FailsUnresolved ==
    /\ wire' = wire
    /\ calls' = calls
    /\ AppendsFailure(BatchOrder[Position + 1])
    /\ results'.errors[Len(results'.errors)].error.err = "NameNotFound"
    /\ RecordProcessed

\* The loops take up an epic (a story) with a reference that does not
\* resolve; the epic's own template, loaded before, has been read.
EpicUnresolved ==
    /\ pc = "epics"
    /\ EpicTemplate(input.epics[idx]).ok
    /\ ~EpicReferencesResolve(Unwrap(resolver), input.epics[idx])

StoryUnresolved ==
    /\ pc = "stories"
    /\ ~StoryReferencesResolve(Unwrap(resolver), input.stories[idx])

\* C32: in apply mode the create request of an epic or story is sent only
\* after every reference field of the record has resolved, and it carries
\* the ID of every owner and team of the record; when a reference of the
\* record does not resolve, the step that takes the record up sends no
\* request, appends exactly one failure entry for the record and goes to
\* the next record, so no request is ever sent for it.
C32_RequestOnlyWhenResolved ==
    /\ [](pc = "epic_call" =>
            /\ EpicReferencesResolve(Unwrap(resolver), input.epics[idx])
            /\ OwnersComplete(calls["main"].req.body, input.epics[idx].owners)
            /\ TeamsComplete(calls["main"].req.body, input.epics[idx].teams))
    /\ [](pc = "story_call" =>
            /\ StoryReferencesResolve(Unwrap(resolver), input.stories[idx])
            /\ OwnersComplete(calls["main"].req.body, input.stories[idx].owners))
    /\ [][/\ EpicUnresolved => FailsUnresolved
          /\ StoryUnresolved => FailsUnresolved
          /\ wire' # wire => Len(wire') = Len(wire) + 1]_vars

\* A run has ended in which an epic with a known owner followed by an
\* unknown one was taken up: one failure entry, no epic request on the
\* wire, and an objective request before it.
C32_Witness ==
    /\ pc = "done"
    /\ Len(input.objectives) = 1 /\ Len(input.epics) = 1
    /\ Len(input.epics[1].owners) = 2
    /\ Sent("/objectives") /\ ~Sent("/epics")
    /\ FailuresOf("epic") # {}
    /\ Len(results.errors) = 1
    /\ results.errors[1].error = NameNotFound("user", Bob)

(***************************************************************************)
(* Numeric references, checked under SpecResolver.                         *)
(***************************************************************************)
\* C33: resolve_objective and resolve_epic of a string that parses as an
\* integer once trimmed return that integer, whatever the dynamic maps
\* hold (the digits registered as a name under another ID or not), and
\* never fail.
C33_NumericPassThrough ==
    (/\ Called("resolve_objective") \/ Called("resolve_epic")
     /\ IsNumericRef(LastCall.name))
        => LastCall.result = Some(Ok(Unwrap(ParseI64(Trim(LastCall.name)))))

\* " 7 " was resolved as an objective reference while an objective named
\* "7" is registered under another ID: the answer is 7.
C33_Witness ==
    /\ Called("resolve_objective")
    /\ LastCall.name = NameSp7Sp
    /\ Get(Unwrap(resolver).objective_map, Name7) = Some(1)
    /\ LastCall.result = Some(Ok(7))

(***************************************************************************)
(* The events of an apply-mode run, checked under SpecApply.               *)
(***************************************************************************)
IsRecordEvent(e) == e.event \in {"created", "error"}

IsSummaryEvent(e) == e.event = "summary"

RecordEvents == SelectSeq(output, IsRecordEvent)

SummaryEvents == SelectSeq(output, IsSummaryEvent)

\* One event per processed record, in processing order, each for its record.
OneEventPerRecord ==
    /\ Len(RecordEvents) = Position
    /\ \A k \in 1..Len(RecordEvents) :
          /\ k <= Len(BatchOrder)
          /\ RecordEvents[k].kind = BatchOrder[k].kind
          /\ RecordEvents[k].name = BatchOrder[k].name

\* The summary carries the three counters and the failure list.
SummaryOfResults(e) ==
    /\ e.objectives_created = results.objectives_ok
    /\ e.epics_created = results.epics_ok
    /\ e.stories_created = results.stories_ok
    /\ e.error_count = Len(results.errors)
    /\ e.error_count = Len(e.errors)

\* C34: in apply mode exactly one event (created or error) is emitted per
\* processed record, in processing order, and exactly one summary event is
\* emitted, after all per-record events and before the process exits; its
\* counts equal the three success counters and its error_count the length
\* of its failure list.
C34_OneEventPerRecordThenSummary ==
    /\ OneEventPerRecord
    /\ Len(SummaryEvents) = (IF Ended THEN 1 ELSE 0)
    /\ Ended => (IsSummaryEvent(LastOutput) /\ SummaryOfResults(LastOutput))

(***************************************************************************)
(* What changes the Resolver, checked under SpecRuns (both modes).         *)
(***************************************************************************)
\* The person, team and stage maps and the default stage of two Resolvers
\* are the same.
SameStaticMaps(r, r2) ==
    /\ r2.member_map = r.member_map
    /\ r2.group_map = r.group_map
    /\ r2.workflow_state_map = r.workflow_state_map
    /\ r2.default_workflow_state_id = r.default_workflow_state_id

\* Map m2 is map m with `name` set to `id` and nothing else changed.
SetIn(m, m2, name, id) ==
    /\ DOMAIN m2 = DOMAIN m \cup {name}
    /\ m2[name] = id
    /\ \A n \in DOMAIN m \ {name} : m2[n] = m[n]

\* The step is the return of a successful create call of the tier at `at`.
CreateSucceeds(at) ==
    /\ pc = at
    /\ calls["main"].pc = "returned"
    /\ Unwrap(calls["main"].ret).ok

\* C35: once constructed, the Resolver changes only in the step in which an
\* objective or epic create call returns successfully, and then only by
\* setting that record's name to the returned ID in the map of its tier;
\* the person, team and stage maps and the default stage never change;
\* story steps, steps that record a failure and the dry-run validation
\* leave the Resolver unchanged, and in dry-run both dynamic maps stay
\* empty.
C35_ResolverFrame ==
    /\ []((args.dry_run /\ IsSome(resolver)) =>
            (Unwrap(resolver).objective_map = EmptyMap /\ Unwrap(resolver).epic_map = EmptyMap))
    /\ [][IsSome(resolver) =>
            /\ IsSome(resolver')
            /\ SameStaticMaps(Unwrap(resolver), Unwrap(resolver'))
            /\ resolver' # resolver => (CreateSucceeds("objective_call") \/ CreateSucceeds("epic_call"))
            /\ CreateSucceeds("objective_call") =>
                  /\ SetIn(Unwrap(resolver).objective_map, Unwrap(resolver').objective_map,
                           input.objectives[idx].name, ReturnedId)
                  /\ Unwrap(resolver').epic_map = Unwrap(resolver).epic_map
            /\ CreateSucceeds("epic_call") =>
                  /\ SetIn(Unwrap(resolver).epic_map, Unwrap(resolver').epic_map,
                           input.epics[idx].name, ReturnedId)
                  /\ Unwrap(resolver').objective_map = Unwrap(resolver).objective_map
            /\ results'.errors # results.errors => resolver' = resolver
            /\ pc \in {"stories", "story_call", "dry_run"} => resolver' = resolver]_vars

\* An apply-mode run has ended in which an epic was created and registered
\* and a story then failed: the Resolver holds the epic and, for the rest,
\* what Resolver::new built.
C35_Witness ==
    /\ pc = "done" /\ ~args.dry_run
    /\ results.epics_ok = 1
    /\ FailuresOf("story") # {}
    /\ IsSome(resolver)
    /\ Unwrap(resolver).objective_map = EmptyMap
    /\ DOMAIN Unwrap(resolver).epic_map = {input.epics[1].name}
    /\ SameStaticMaps(NewResolver(workspace.members, workspace.groups, workspace.workflows),
                      Unwrap(resolver))

(***************************************************************************)
(* Dry-run against apply, checked under SpecApply: the validation of the   *)
(* batch of the run on the Resolver the run started with.                  *)
(***************************************************************************)
\* dry_run of the batch on the Resolver built from the snapshot finds
\* nothing, whatever the order in which the maps iterate.
DryRunValid ==
    LET r0 == NewResolver(workspace.members, workspace.groups, workspace.workflows) IN
    \A h \in IterationOrders(StaticKeys(r0)) : DryRunErrors(input, r0, h) = << >>

\* Every create request of the run was answered 2xx with a body that
\* decodes.
AllCreated ==
    /\ faults = 0
    /\ FailuresWith("Api") = {}
    /\ FailuresWith("Transport") = {}
    /\ FailuresWith("Decode") = {}

\* C36: if dry-run validation of a batch yields no violation, an apply-mode
\* run of the same batch against the same snapshot in which every create
\* request is answered 2xx records no NameNotFound failure, batches whose
\* names or references carry surrounding whitespace or consist of digits
\* included.
C36_DryRunSound ==
    (Ended /\ DryRunValid /\ AllCreated) => FailuresWith("NameNotFound") = {}

(***************************************************************************)
(* Failures down the tiers, checked under SpecApply.                       *)
(***************************************************************************)
\* The names of the batch are pairwise distinct and no name is a number.
DistinctNames ==
    /\ \A k, l \in 1..Len(BatchOrder) : BatchOrder[k].name = BatchOrder[l].name => k = l
    /\ \A k \in 1..Len(BatchOrder) : ~IsNumericRef(BatchOrder[k].name)

StoryOutcome(k) == output[Len(input.objectives) + Len(input.epics) + k]

\* A create request for a record of that name was sent to `path`.
SentFor(path, name) ==
    \E i \in 1..Len(wire) :
        wire[i].method = "POST" /\ wire[i].path = path /\ wire[i].body.name = name

\* C37: in a batch with distinct non-numeric names, once the run is over,
\* every epic that references by name an objective whose create call
\* failed is recorded as failed and no create request was sent for it, and
\* every story that references by name an epic that failed is recorded as
\* failed and no create request was sent for it.
C37_FailuresCascade ==
    (SummaryEmitted /\ DistinctNames) =>
        /\ \A i \in 1..Len(input.objectives), j \in 1..Len(input.epics) :
              (/\ ObjectiveOutcome(i).event = "error"
               /\ input.epics[j].objective = Some(input.objectives[i].name))
                 => (/\ EpicOutcome(j).event = "error"
                     /\ ~SentFor("/epics", input.epics[j].name))
        /\ \A j \in 1..Len(input.epics), k \in 1..Len(input.stories) :
              (/\ EpicOutcome(j).event = "error"
               /\ input.stories[k].epic = Some(input.epics[j].name))
                 => (/\ StoryOutcome(k).event = "error"
                     /\ ~SentFor("/stories", input.stories[k].name))

(***************************************************************************)
(* A 2xx answer whose body does not decode, checked under SpecApply.       *)
(***************************************************************************)
\* The create call of the record the loops are at has returned the error
\* of a 2xx response whose body could not be decoded.
UndecodableReturned ==
    /\ pc \in {"objective_call", "epic_call", "story_call"}
    /\ calls["main"].pc = "returned"
    /\ calls["main"].ret = Some(DecodeError)

\* The outcome of the record is the failure of an undecodable 2xx answer.
IsUndecodable(e) == e.event = "error" /\ Unwrap(e.error).err = "Decode"

IsUnresolved(e) == e.event = "error" /\ Unwrap(e.error).err = "NameNotFound"

\* C38: when a create request is answered 2xx with a body that cannot be
\* decoded, the remote has created the entity, the call returns at once
\* (the request is not sent again), the record is recorded as a failure,
\* no success counter is incremented and its name is not registered; and
\* once the run is over every later record that references that name (no
\* record of the same name having been created) has failed to resolve it.
C38_UndecodableCreateFails ==
    /\ [](UndecodableReturned =>
            /\ Unwrap(calls["main"].resp).json_ok = FALSE
            /\ IsSuccess(Unwrap(calls["main"].resp).status)
            /\ wire[Len(wire)] = calls["main"].req
            /\ remote # << >>
            /\ remote[Len(remote)].name = BatchOrder[Position + 1].name)
    /\ [][UndecodableReturned =>
            /\ AppendsFailure(BatchOrder[Position + 1])
            /\ results'.errors[Len(results'.errors)].error = DecodeError
            /\ resolver' = resolver
            /\ wire' = wire
            /\ RecordProcessed]_vars
    /\ [](SummaryEmitted =>
            /\ \A i \in 1..Len(input.objectives), j \in 1..Len(input.epics) :
                  (/\ IsUndecodable(ObjectiveOutcome(i))
                   /\ input.epics[j].objective = Some(input.objectives[i].name)
                   /\ IsNameRef(input.epics[j].objective)
                   /\ CreatedObjectives(input.objectives[i].name) = {})
                     => IsUnresolved(EpicOutcome(j))
            /\ \A j \in 1..Len(input.epics), k \in 1..Len(input.stories) :
                  (/\ IsUndecodable(EpicOutcome(j))
                   /\ input.stories[k].epic = Some(input.epics[j].name)
                   /\ IsNameRef(input.stories[k].epic)
                   /\ CreatedEpics(input.epics[j].name) = {})
                     => IsUnresolved(StoryOutcome(k)))

(***************************************************************************)
(* Termination, checked under SpecLive.                                    *)
(***************************************************************************)
\* The run has ended in one of the ways run can end: the summary, the
\* validation result, the early return of an empty batch, or an abort.
EndedProperly ==
    \/ ~args.dry_run /\ SummaryEmitted /\ exit \in {"ok", "exit1"}
    \/ args.dry_run /\ ValidationEmitted /\ exit \in {"ok", "exit1"}
    \/ Total = 0 /\ output = << >> /\ exit = "ok"
    \/ exit = "error"

====
